---- MODULE Spec2Model ----
(***************************************************************************)
(* FlavorHub server handlers (auth, restaurants, orders, order items,      *)
(* reservations, payments) over the relational schema of db/schema.ts, and  *)
(* the two client screens that drive them (OrderManagement, RestaurantMenu).*)
(*                                                                         *)
(* A table is a function from the serial id of a row to the row.  Columns  *)
(* that no handler reads back (names, phone numbers, opening hours,        *)
(* timestamps) are left out of the rows.  A handler called on its own is   *)
(* one atomic action; handlers called at the same time run statement by    *)
(* statement (variable `calls`).  The outcome of the latest call is kept   *)
(* in the variable `last`.                                                 *)
(*                                                                         *)
(* Money is computed in exact decimal arithmetic (dollars and thousandths  *)
(* of a dollar); a numeric(10,2) column rounds what is written to it to    *)
(* cents and rejects values of more than eight integer digits.             *)
(***************************************************************************)
EXTENDS Integers, Sequences, FiniteSets, TLC

VARIABLES usersTable, restaurantsTable, menuItemsTable, reservationsTable,
          ordersTable, orderItemsTable, paymentsTable, serial, last,
          calls,   \* the handler calls in flight, each with what it has read so far
          orders,  \* the orders the OrderManagement screen has loaded
          cart     \* the cart of the RestaurantMenu screen

\* the state outside the database: calls in flight and the two screens
session == <<calls, orders, cart>>

vars == <<usersTable, restaurantsTable, menuItemsTable, reservationsTable,
          ordersTable, orderItemsTable, paymentsTable, serial, last, session>>

-----------------------------------------------------------------------------
(* Bounds of the model *)

MaxEmails == 2
MaxRestaurants == 2
MaxOrders == 2
MaxOrderItems == 2
MaxQuantity == 2
MaxStatusOrders == 1
MaxReservations == 2
MaxPayments == 2
MaxStatusPayments == 1
MaxMenuItems == 4

-----------------------------------------------------------------------------
(* Values *)

\* serial ids start at 1, so 0 is free to stand for SQL NULL in an id column
NULL == 0
\* SQL NULL in a text column
NullText == "<null>"
\* a field that an update input leaves out (undefined)
Undefined == "<undefined>"
\* an id that names no row of any table
MissingId == 9999

userRoleEnum == {"customer", "partner"}
reservationStatusEnum == {"pending", "confirmed", "cancelled", "completed"}
orderStatusEnum == {"pending", "confirmed", "preparing", "ready", "delivered", "cancelled"}
paymentStatusEnum == {"pending", "processing", "completed", "failed", "refunded"}
paymentTypeEnum == {"order", "reservation"}

Emails == {<<"user", i, "@test.com">> : i \in 1..MaxEmails}
Passwords == {"secret1", "secret2"}
Texts == {NullText, "text"}

\* an optional input field that is not text: left out, or given with a value
Absent == << >>
Given(v) == <<v>>

\* the function f extended or overwritten at id
Put(f, id, row) == [i \in DOMAIN f \cup {id} |-> IF i = id THEN row ELSE f[i]]
\* the function f without id
Drop(f, id) == [i \in DOMAIN f \ {id} |-> f[i]]

\* the latest call: the handler, its arguments, the row its first query read when
\* the handler goes on to use it (<<>> otherwise), the message of the error it threw
\* ("" when it returned) and the value it returned
NoCall == [op |-> "none", args |-> <<>>, read |-> <<>>, error |-> "", ret |-> <<>>]
CallRead(op, args, read, error, ret) ==
    [op |-> op, args |-> args, read |-> read, error |-> error, ret |-> ret]
Call(op, args, error, ret) == CallRead(op, args, <<>>, error, ret)

\* the string s begins with the string prefix
StartsWith(s, prefix) == Len(s) >= Len(prefix) /\ SubSeq(s, 1, Len(prefix)) = prefix

-----------------------------------------------------------------------------
(* Money: d dollars and m thousandths, value d + m/1000 with 0 <= m < 1000 *)

Money(d, m) == [d |-> d + (m \div 1000), m |-> m % 1000]
Zero == Money(0, 0)
MAdd(a, b) == Money(a.d + b.d, a.m + b.m)
MSub(a, b) == Money(a.d - b.d, a.m - b.m)
MMul(a, q) == Money(a.d * q, a.m * q)
MNeg(a) == Money(0 - a.d, 0 - a.m)
MIsNegative(a) == a.d < 0
\* Math.max(0, a)
MMax0(a) == IF MIsNegative(a) THEN Zero ELSE a

NumericPrecision == 10
NumericScale == 2

RECURSIVE Pow10(_)
Pow10(n) == IF n = 0 THEN 1 ELSE 10 * Pow10(n - 1)

\* rounding of a non-negative amount to cents, half up
RoundCentsAbs(a) == Money(a.d, ((a.m + 5) \div 10) * 10)
\* the value a numeric(10,2) column stores for the number a (half away from zero)
toNumeric(a) == IF MIsNegative(a) THEN MNeg(RoundCentsAbs(MNeg(a))) ELSE RoundCentsAbs(a)
\* the rounded value has at most precision - scale integer digits
numericFits(a) ==
    LET r == toNumeric(a)
        abs == IF MIsNegative(r) THEN MNeg(r) ELSE r
    IN abs.d < Pow10(NumericPrecision - NumericScale)

-----------------------------------------------------------------------------
(* Initial state: the empty database *)

Init ==
    /\ usersTable = << >>
    /\ restaurantsTable = << >>
    /\ menuItemsTable = << >>
    /\ reservationsTable = << >>
    /\ ordersTable = << >>
    /\ orderItemsTable = << >>
    /\ paymentsTable = << >>
    /\ serial = [users |-> 1, restaurants |-> 1, menu_items |-> 1, reservations |-> 1,
                 orders |-> 1, order_items |-> 1, payments |-> 1]
    /\ last = NoCall
    /\ calls = << >>
    /\ orders = << >>
    /\ cart = << >>

-----------------------------------------------------------------------------
(* auth.ts *)

\* Buffer.from(password + 'salt').toString('base64'): an injective encoding
hashPassword(password) == <<"base64", password, "salt">>

RegisterUserInputs == [email : Emails, password : Passwords, role : userRoleEnum]

\* registerUser without the check for an existing user
RegisterUser_NoExistenceCheck(input) ==
    LET id == serial.users
        newUser == [id |-> id, email |-> input.email,
                    password_hash |-> hashPassword(input.password), role |-> input.role]
    IN /\ usersTable' = Put(usersTable, id, newUser)
       /\ serial' = [serial EXCEPT !.users = id + 1]
       /\ last' = Call("registerUser", input, "", newUser)
       /\ UNCHANGED <<session, restaurantsTable, menuItemsTable, reservationsTable,
                      ordersTable, orderItemsTable, paymentsTable>>

RegisterUser(input) ==
    LET existingUsers == {i \in DOMAIN usersTable : usersTable[i].email = input.email}
        id == serial.users
        newUser == [id |-> id, email |-> input.email,
                    password_hash |-> hashPassword(input.password), role |-> input.role]
    IN IF existingUsers # {}
       THEN /\ last' = Call("registerUser", input, "User with this email already exists", <<>>)
            /\ UNCHANGED <<session, usersTable, restaurantsTable, menuItemsTable, reservationsTable,
                           ordersTable, orderItemsTable, paymentsTable, serial>>
       ELSE /\ usersTable' = Put(usersTable, id, newUser)
            /\ serial' = [serial EXCEPT !.users = id + 1]
            /\ last' = Call("registerUser", input, "", newUser)
            /\ UNCHANGED <<session, restaurantsTable, menuItemsTable, reservationsTable,
                           ordersTable, orderItemsTable, paymentsTable>>

-----------------------------------------------------------------------------
(* restaurants.ts *)

CreateRestaurantInputs == [partner_id : 1..MaxEmails \cup {MissingId}]

\* createRestaurant without the check of the role
CreateRestaurant_NoRoleCheck(input) ==
    LET id == serial.restaurants
        restaurant == [id |-> id, partner_id |-> input.partner_id]
    IN IF input.partner_id \notin DOMAIN usersTable
       THEN /\ last' = Call("createRestaurant", input,
                         "Partner with ID " \o ToString(input.partner_id) \o " not found", <<>>)
            /\ UNCHANGED <<session, usersTable, restaurantsTable, menuItemsTable, reservationsTable,
                           ordersTable, orderItemsTable, paymentsTable, serial>>
       ELSE /\ restaurantsTable' = Put(restaurantsTable, id, restaurant)
            /\ serial' = [serial EXCEPT !.restaurants = id + 1]
            /\ last' = Call("createRestaurant", input, "", restaurant)
            /\ UNCHANGED <<session, usersTable, menuItemsTable, reservationsTable,
                           ordersTable, orderItemsTable, paymentsTable>>

CreateRestaurant(input) ==
    LET id == serial.restaurants
        restaurant == [id |-> id, partner_id |-> input.partner_id]
    IN IF input.partner_id \notin DOMAIN usersTable
       THEN /\ last' = Call("createRestaurant", input,
                         "Partner with ID " \o ToString(input.partner_id) \o " not found", <<>>)
            /\ UNCHANGED <<session, usersTable, restaurantsTable, menuItemsTable, reservationsTable,
                           ordersTable, orderItemsTable, paymentsTable, serial>>
       ELSE IF usersTable[input.partner_id].role # "partner"
       THEN /\ last' = Call("createRestaurant", input,
                         "User with ID " \o ToString(input.partner_id) \o " is not a partner", <<>>)
            /\ UNCHANGED <<session, usersTable, restaurantsTable, menuItemsTable, reservationsTable,
                           ordersTable, orderItemsTable, paymentsTable, serial>>
       ELSE /\ restaurantsTable' = Put(restaurantsTable, id, restaurant)
            /\ serial' = [serial EXCEPT !.restaurants = id + 1]
            /\ last' = Call("createRestaurant", input, "", restaurant)
            /\ UNCHANGED <<session, usersTable, menuItemsTable, reservationsTable,
                           ordersTable, orderItemsTable, paymentsTable>>

NextAccounts ==
    \/ \E input \in RegisterUserInputs : RegisterUser(input)
    \/ /\ serial.restaurants <= MaxRestaurants
       /\ \E input \in CreateRestaurantInputs : CreateRestaurant(input)

SpecAccounts == Init /\ [][NextAccounts]_vars

\* C9: every restaurant's partner_id names an existing user whose role is 'partner';
\* createRestaurant throws 'Partner with ID <id> not found' for an unknown user and
\* 'User with ID <id> is not a partner' for a customer, creating no restaurant, and
\* otherwise creates one restaurant of that partner
C9_RestaurantOwnedByPartner ==
    /\ [](\A r \in DOMAIN restaurantsTable :
             /\ restaurantsTable[r].partner_id \in DOMAIN usersTable
             /\ usersTable[restaurantsTable[r].partner_id].role = "partner")
    /\ [][last'.op = "createRestaurant" =>
            LET id == last'.args.partner_id
                exists == id \in DOMAIN usersTable
            IN /\ ~exists
                     => /\ last'.error = "Partner with ID " \o ToString(id) \o " not found"
                        /\ restaurantsTable' = restaurantsTable
               /\ (exists /\ usersTable[id].role = "customer")
                     => /\ last'.error = "User with ID " \o ToString(id) \o " is not a partner"
                        /\ restaurantsTable' = restaurantsTable
               /\ (exists /\ usersTable[id].role = "partner")
                     => /\ last'.error = ""
                        /\ \E new \in DOMAIN restaurantsTable' \ DOMAIN restaurantsTable :
                              /\ DOMAIN restaurantsTable' = DOMAIN restaurantsTable \cup {new}
                              /\ restaurantsTable'[new].partner_id = id
                        /\ \A r \in DOMAIN restaurantsTable :
                              restaurantsTable'[r] = restaurantsTable[r]]_vars

\* a partner has created a second restaurant
C9_Witness ==
    /\ last.op = "createRestaurant"
    /\ last.error = ""
    /\ \E r1, r2 \in DOMAIN restaurantsTable :
          /\ r1 # r2
          /\ restaurantsTable[r1].partner_id = restaurantsTable[r2].partner_id
          /\ usersTable[restaurantsTable[r1].partner_id].role = "partner"

\* C10: no two users have the same email; registerUser with a registered email throws
\* 'User with this email already exists' and adds no user, and with a new email adds
\* exactly one user, with that email, the given role and an id no user had
C10_EmailsUnique ==
    /\ [](\A u1, u2 \in DOMAIN usersTable :
             usersTable[u1].email = usersTable[u2].email => u1 = u2)
    /\ [][last'.op = "registerUser" =>
            LET registered == \E u \in DOMAIN usersTable :
                                 usersTable[u].email = last'.args.email
            IN /\ registered
                     => /\ last'.error = "User with this email already exists"
                        /\ usersTable' = usersTable
               /\ ~registered
                     => /\ last'.error = ""
                        /\ \E new \in DOMAIN usersTable' \ DOMAIN usersTable :
                              /\ DOMAIN usersTable' = DOMAIN usersTable \cup {new}
                              /\ usersTable'[new].email = last'.args.email
                              /\ usersTable'[new].role = last'.args.role
                              /\ last'.ret.id = new
                              /\ \A old \in DOMAIN usersTable : old < new
                        /\ \A u \in DOMAIN usersTable : usersTable'[u] = usersTable[u]]_vars

\* a registerUser with the email of a stored user has been rejected
C10_Witness ==
    /\ last.op = "registerUser"
    /\ last.error = "User with this email already exists"
    /\ \E u \in DOMAIN usersTable : usersTable[u].email = last.args.email

LoginInputs == [email : Emails, password : Passwords]

\* verifyPassword: the hash of the password is the stored hash
verifyPassword(password, hash) == hashPassword(password) = hash

\* generateToken: the signed token carries the id of the user
generateToken(userId) == <<"jwt", userId>>

\* loginUser without the verification of the password
LoginUser_NoPasswordCheck(input) ==
    LET users == {i \in DOMAIN usersTable : usersTable[i].email = input.email}
        user == usersTable[CHOOSE i \in users : TRUE]
    IN /\ last' = IF users = {}
                  THEN Call("loginUser", input, "Invalid credentials", <<>>)
                  ELSE Call("loginUser", input, "",
                            [user |-> user, token |-> generateToken(user.id)])
       /\ UNCHANGED <<session, usersTable, restaurantsTable, menuItemsTable, reservationsTable,
                      ordersTable, orderItemsTable, paymentsTable, serial>>

LoginUser(input) ==
    LET users == {i \in DOMAIN usersTable : usersTable[i].email = input.email}
        user == usersTable[CHOOSE i \in users : TRUE]
    IN /\ last' = IF users = {}
                  THEN Call("loginUser", input, "Invalid credentials", <<>>)
                  ELSE IF ~verifyPassword(input.password, user.password_hash)
                  THEN Call("loginUser", input, "Invalid credentials", <<>>)
                  ELSE Call("loginUser", input, "",
                            [user |-> user, token |-> generateToken(user.id)])
       /\ UNCHANGED <<session, usersTable, restaurantsTable, menuItemsTable, reservationsTable,
                      ordersTable, orderItemsTable, paymentsTable, serial>>

NextLogin ==
    \/ \E input \in RegisterUserInputs : RegisterUser(input)
    \/ \E input \in LoginInputs : LoginUser(input)

SpecLogin == Init /\ [][NextLogin]_vars

\* C11: registerUser stores the hash of the password it is given and different
\* passwords have different hashes; loginUser returns the user registered under the
\* email (same id and role) exactly when the password given hashes to the stored hash,
\* throws 'Invalid credentials' both for an unregistered email and for a wrong
\* password, and never changes the users table
C11_LoginMatchesRegistration ==
    /\ [](\A p1, p2 \in Passwords : hashPassword(p1) = hashPassword(p2) => p1 = p2)
    /\ [][(last'.op = "registerUser" /\ last'.error = "")
            => usersTable'[last'.ret.id].password_hash = hashPassword(last'.args.password)]_vars
    /\ [][last'.op = "loginUser" =>
            LET registered == {u \in DOMAIN usersTable : usersTable[u].email = last'.args.email}
                matching == {u \in registered :
                                usersTable[u].password_hash = hashPassword(last'.args.password)}
            IN /\ usersTable' = usersTable
               /\ matching = {} => last'.error = "Invalid credentials"
               /\ matching # {}
                     => /\ last'.error = ""
                        /\ last'.ret.user.id \in matching
                        /\ last'.ret.user.email = last'.args.email
                        /\ last'.ret.user.role = usersTable[last'.ret.user.id].role]_vars

\* a login with the registered password has succeeded, and another password does not
\* verify against the hash stored for that user
C11_Witness ==
    /\ last.op = "loginUser"
    /\ last.error = ""
    /\ last.ret.user.id \in DOMAIN usersTable
    /\ usersTable[last.ret.user.id].email = last.args.email
    /\ \E p \in Passwords : /\ p # last.args.password
                             /\ ~verifyPassword(p, usersTable[last.ret.user.id].password_hash)

-----------------------------------------------------------------------------
(* The database as the handler tests seed it before each case: a customer,  *)
(* a partner, a second customer, two restaurants of the partner and one     *)
(* menu item in each restaurant.                                            *)

SeedUsers ==
    (1 :> [id |-> 1, email |-> <<"customer", 1, "@test.com">>,
           password_hash |-> "hashed_password", role |-> "customer"]) @@
    (2 :> [id |-> 2, email |-> <<"partner", 2, "@test.com">>,
           password_hash |-> "hashed_password", role |-> "partner"]) @@
    (3 :> [id |-> 3, email |-> <<"unauthorized", 3, "@test.com">>,
           password_hash |-> "hashed_password", role |-> "customer"])

SeedRestaurants ==
    (1 :> [id |-> 1, partner_id |-> 2]) @@ (2 :> [id |-> 2, partner_id |-> 2])

SeedMenuItems ==
    (1 :> [id |-> 1, restaurant_id |-> 1, name |-> "Test Pizza",
           description |-> "Delicious test pizza", price |-> Money(15, 990),
           category |-> "Main", is_available |-> TRUE, image_url |-> NullText]) @@
    (2 :> [id |-> 2, restaurant_id |-> 2, name |-> "Test Pizza",
           description |-> "Delicious test pizza", price |-> Money(15, 990),
           category |-> "Main", is_available |-> TRUE, image_url |-> NullText])

InitSeeded ==
    /\ usersTable = SeedUsers
    /\ restaurantsTable = SeedRestaurants
    /\ menuItemsTable = SeedMenuItems
    /\ reservationsTable = << >>
    /\ ordersTable = << >>
    /\ orderItemsTable = << >>
    /\ paymentsTable = << >>
    /\ serial = [users |-> 4, restaurants |-> 3, menu_items |-> 3, reservations |-> 1,
                 orders |-> 1, order_items |-> 1, payments |-> 1]
    /\ last = NoCall
    /\ calls = << >>
    /\ orders = << >>
    /\ cart = << >>

-----------------------------------------------------------------------------
(* orders.ts *)

CreateOrderInputs ==
    [customer_id : {1, MissingId}, restaurant_id : {1, 2, MissingId},
     delivery_address : {NullText}, special_instructions : {NullText}]

\* createOrder without the lookup of the restaurant
CreateOrder_NoRestaurantCheck(input) ==
    LET id == serial.orders
        order == [id |-> id, customer_id |-> input.customer_id,
                  restaurant_id |-> input.restaurant_id, status |-> "pending",
                  total_amount |-> toNumeric(Zero),
                  delivery_address |-> input.delivery_address,
                  special_instructions |-> input.special_instructions]
    IN IF input.customer_id \notin DOMAIN usersTable
       THEN /\ last' = Call("createOrder", input, "Customer not found", <<>>)
            /\ UNCHANGED <<session, usersTable, restaurantsTable, menuItemsTable, reservationsTable,
                           ordersTable, orderItemsTable, paymentsTable, serial>>
       ELSE /\ ordersTable' = Put(ordersTable, id, order)
            /\ serial' = [serial EXCEPT !.orders = id + 1]
            /\ last' = Call("createOrder", input, "", order)
            /\ UNCHANGED <<session, usersTable, restaurantsTable, menuItemsTable, reservationsTable,
                           orderItemsTable, paymentsTable>>

CreateOrder(input) ==
    LET id == serial.orders
        order == [id |-> id, customer_id |-> input.customer_id,
                  restaurant_id |-> input.restaurant_id, status |-> "pending",
                  total_amount |-> toNumeric(Zero),
                  delivery_address |-> input.delivery_address,
                  special_instructions |-> input.special_instructions]
    IN IF input.customer_id \notin DOMAIN usersTable
       THEN /\ last' = Call("createOrder", input, "Customer not found", <<>>)
            /\ UNCHANGED <<session, usersTable, restaurantsTable, menuItemsTable, reservationsTable,
                           ordersTable, orderItemsTable, paymentsTable, serial>>
       ELSE IF input.restaurant_id \notin DOMAIN restaurantsTable
       THEN /\ last' = Call("createOrder", input, "Restaurant not found", <<>>)
            /\ UNCHANGED <<session, usersTable, restaurantsTable, menuItemsTable, reservationsTable,
                           ordersTable, orderItemsTable, paymentsTable, serial>>
       ELSE /\ ordersTable' = Put(ordersTable, id, order)
            /\ serial' = [serial EXCEPT !.orders = id + 1]
            /\ last' = Call("createOrder", input, "", order)
            /\ UNCHANGED <<session, usersTable, restaurantsTable, menuItemsTable, reservationsTable,
                           orderItemsTable, paymentsTable>>

UnitPrices == {Money(0, 5), Money(12, 990), Money(60000000, 0)}

CreateOrderItemInputs ==
    [order_id : {1, 2, MissingId}, menu_item_id : {1, 2, MissingId},
     quantity : 1..MaxQuantity, unit_price : UnitPrices]

\* addOrderItem looking up the menu item before the order
AddOrderItem_MenuItemFirst(input) ==
    LET id == serial.order_items
        totalPrice == MMul(input.unit_price, input.quantity)
        orderItem == [id |-> id, order_id |-> input.order_id,
                      menu_item_id |-> input.menu_item_id, quantity |-> input.quantity,
                      unit_price |-> toNumeric(input.unit_price),
                      total_price |-> toNumeric(totalPrice)]
        \* the total read at the start of the call
        currentTotal == ordersTable[input.order_id].total_amount
        newTotal == MAdd(currentTotal, totalPrice)
    IN IF input.menu_item_id \notin DOMAIN menuItemsTable
       THEN /\ last' = Call("addOrderItem", input, "Menu item not found", <<>>)
            /\ UNCHANGED <<session, usersTable, restaurantsTable, menuItemsTable, reservationsTable,
                           ordersTable, orderItemsTable, paymentsTable, serial>>
       ELSE IF input.order_id \notin DOMAIN ordersTable
       THEN /\ last' = Call("addOrderItem", input, "Order not found", <<>>)
            /\ UNCHANGED <<session, usersTable, restaurantsTable, menuItemsTable, reservationsTable,
                           ordersTable, orderItemsTable, paymentsTable, serial>>
       ELSE IF ~(numericFits(input.unit_price) /\ numericFits(totalPrice))
       THEN \* the insert is rejected; the sequence value is still consumed
            /\ serial' = [serial EXCEPT !.order_items = id + 1]
            /\ last' = Call("addOrderItem", input, "numeric field overflow", <<>>)
            /\ UNCHANGED <<session, usersTable, restaurantsTable, menuItemsTable, reservationsTable,
                           ordersTable, orderItemsTable, paymentsTable>>
       ELSE IF ~numericFits(newTotal)
       THEN \* the item is stored, the update of the order is rejected
            /\ orderItemsTable' = Put(orderItemsTable, id, orderItem)
            /\ serial' = [serial EXCEPT !.order_items = id + 1]
            /\ last' = Call("addOrderItem", input, "numeric field overflow", <<>>)
            /\ UNCHANGED <<session, usersTable, restaurantsTable, menuItemsTable, reservationsTable,
                           ordersTable, paymentsTable>>
       ELSE /\ orderItemsTable' = Put(orderItemsTable, id, orderItem)
            /\ ordersTable' = [ordersTable EXCEPT
                                  ![input.order_id].total_amount = toNumeric(newTotal)]
            /\ serial' = [serial EXCEPT !.order_items = id + 1]
            /\ last' = Call("addOrderItem", input, "", orderItem)
            /\ UNCHANGED <<session, usersTable, restaurantsTable, menuItemsTable, reservationsTable,
                           paymentsTable>>

AddOrderItem(input) ==
    LET id == serial.order_items
        totalPrice == MMul(input.unit_price, input.quantity)
        orderItem == [id |-> id, order_id |-> input.order_id,
                      menu_item_id |-> input.menu_item_id, quantity |-> input.quantity,
                      unit_price |-> toNumeric(input.unit_price),
                      total_price |-> toNumeric(totalPrice)]
        \* the total read at the start of the call
        currentTotal == ordersTable[input.order_id].total_amount
        newTotal == MAdd(currentTotal, totalPrice)
    IN IF input.order_id \notin DOMAIN ordersTable
       THEN /\ last' = Call("addOrderItem", input, "Order not found", <<>>)
            /\ UNCHANGED <<session, usersTable, restaurantsTable, menuItemsTable, reservationsTable,
                           ordersTable, orderItemsTable, paymentsTable, serial>>
       ELSE IF input.menu_item_id \notin DOMAIN menuItemsTable
       THEN /\ last' = Call("addOrderItem", input, "Menu item not found", <<>>)
            /\ UNCHANGED <<session, usersTable, restaurantsTable, menuItemsTable, reservationsTable,
                           ordersTable, orderItemsTable, paymentsTable, serial>>
       ELSE IF ~(numericFits(input.unit_price) /\ numericFits(totalPrice))
       THEN \* the insert is rejected; the sequence value is still consumed
            /\ serial' = [serial EXCEPT !.order_items = id + 1]
            /\ last' = Call("addOrderItem", input, "numeric field overflow", <<>>)
            /\ UNCHANGED <<session, usersTable, restaurantsTable, menuItemsTable, reservationsTable,
                           ordersTable, orderItemsTable, paymentsTable>>
       ELSE IF ~numericFits(newTotal)
       THEN \* the item is stored, the update of the order is rejected
            /\ orderItemsTable' = Put(orderItemsTable, id, orderItem)
            /\ serial' = [serial EXCEPT !.order_items = id + 1]
            /\ last' = Call("addOrderItem", input, "numeric field overflow", <<>>)
            /\ UNCHANGED <<session, usersTable, restaurantsTable, menuItemsTable, reservationsTable,
                           ordersTable, paymentsTable>>
       ELSE /\ orderItemsTable' = Put(orderItemsTable, id, orderItem)
            /\ ordersTable' = [ordersTable EXCEPT
                                  ![input.order_id].total_amount = toNumeric(newTotal)]
            /\ serial' = [serial EXCEPT !.order_items = id + 1]
            /\ last' = Call("addOrderItem", input, "", orderItem)
            /\ UNCHANGED <<session, usersTable, restaurantsTable, menuItemsTable, reservationsTable,
                           paymentsTable>>

RemoveOrderItemInputs == [orderItemId : 1..MaxOrderItems \cup {MissingId}, orderId : {1, 2, MissingId}]

\* removeOrderItem selecting the item by its id alone
RemoveOrderItem_AnyOrder(input) ==
    LET found == input.orderItemId \in DOMAIN orderItemsTable
        currentTotal == ordersTable[input.orderId].total_amount
        itemTotal == orderItemsTable[input.orderItemId].total_price
        newTotal == MSub(currentTotal, itemTotal)
    IN IF ~found \/ input.orderId \notin DOMAIN ordersTable
       THEN /\ last' = Call("removeOrderItem", input, "", FALSE)
            /\ UNCHANGED <<session, usersTable, restaurantsTable, menuItemsTable, reservationsTable,
                           ordersTable, orderItemsTable, paymentsTable, serial>>
       ELSE /\ orderItemsTable' = Drop(orderItemsTable, input.orderItemId)
            /\ ordersTable' = [ordersTable EXCEPT
                                  ![input.orderId].total_amount = toNumeric(MMax0(newTotal))]
            /\ last' = CallRead("removeOrderItem", input,
                                [order |-> ordersTable[input.orderId],
                                 orderItem |-> orderItemsTable[input.orderItemId]],
                                "", TRUE)
            /\ UNCHANGED <<session, usersTable, restaurantsTable, menuItemsTable, reservationsTable,
                           paymentsTable, serial>>

\* removeOrderItem writing the difference as it is
RemoveOrderItem_NoClamp(input) ==
    LET found == /\ input.orderItemId \in DOMAIN orderItemsTable
                 /\ orderItemsTable[input.orderItemId].order_id = input.orderId
        currentTotal == ordersTable[input.orderId].total_amount
        itemTotal == orderItemsTable[input.orderItemId].total_price
        newTotal == MSub(currentTotal, itemTotal)
    IN IF ~found \/ input.orderId \notin DOMAIN ordersTable
       THEN /\ last' = Call("removeOrderItem", input, "", FALSE)
            /\ UNCHANGED <<session, usersTable, restaurantsTable, menuItemsTable, reservationsTable,
                           ordersTable, orderItemsTable, paymentsTable, serial>>
       ELSE /\ orderItemsTable' = Drop(orderItemsTable, input.orderItemId)
            /\ ordersTable' = [ordersTable EXCEPT
                                  ![input.orderId].total_amount = toNumeric(newTotal)]
            /\ last' = CallRead("removeOrderItem", input,
                                [order |-> ordersTable[input.orderId],
                                 orderItem |-> orderItemsTable[input.orderItemId]],
                                "", TRUE)
            /\ UNCHANGED <<session, usersTable, restaurantsTable, menuItemsTable, reservationsTable,
                           paymentsTable, serial>>

RemoveOrderItem(input) ==
    LET found == /\ input.orderItemId \in DOMAIN orderItemsTable
                 /\ orderItemsTable[input.orderItemId].order_id = input.orderId
        currentTotal == ordersTable[input.orderId].total_amount
        itemTotal == orderItemsTable[input.orderItemId].total_price
        newTotal == MSub(currentTotal, itemTotal)
    IN IF ~found \/ input.orderId \notin DOMAIN ordersTable
       THEN /\ last' = Call("removeOrderItem", input, "", FALSE)
            /\ UNCHANGED <<session, usersTable, restaurantsTable, menuItemsTable, reservationsTable,
                           ordersTable, orderItemsTable, paymentsTable, serial>>
       ELSE /\ orderItemsTable' = Drop(orderItemsTable, input.orderItemId)
            /\ ordersTable' = [ordersTable EXCEPT
                                  ![input.orderId].total_amount = toNumeric(MMax0(newTotal))]
            /\ last' = CallRead("removeOrderItem", input,
                                [order |-> ordersTable[input.orderId],
                                 orderItem |-> orderItemsTable[input.orderItemId]],
                                "", TRUE)
            /\ UNCHANGED <<session, usersTable, restaurantsTable, menuItemsTable, reservationsTable,
                           paymentsTable, serial>>

UpdateOrderInputs ==
    [id : 1..MaxStatusOrders \cup {MissingId}, status : orderStatusEnum \cup {Undefined},
     delivery_address : Texts \cup {Undefined}, special_instructions : {Undefined}]

\* updateOrder writing 'pending' when the input names no status
UpdateOrder_DefaultStatus(input) ==
    LET existing == ordersTable[input.id]
        updated == [existing EXCEPT
                      !.status = IF input.status # Undefined THEN input.status ELSE "pending",
                      !.delivery_address =
                          IF input.delivery_address # Undefined THEN input.delivery_address ELSE @,
                      !.special_instructions =
                          IF input.special_instructions # Undefined
                          THEN input.special_instructions ELSE @]
    IN IF input.id \notin DOMAIN ordersTable
       THEN /\ last' = Call("updateOrder", input, "Order not found", <<>>)
            /\ UNCHANGED <<session, usersTable, restaurantsTable, menuItemsTable, reservationsTable,
                           ordersTable, orderItemsTable, paymentsTable, serial>>
       ELSE /\ ordersTable' = [ordersTable EXCEPT ![input.id] = updated]
            /\ last' = CallRead("updateOrder", input, existing, "", updated)
            /\ UNCHANGED <<session, usersTable, restaurantsTable, menuItemsTable, reservationsTable,
                           orderItemsTable, paymentsTable, serial>>

UpdateOrder(input) ==
    LET existing == ordersTable[input.id]
        updated == [existing EXCEPT
                      !.status = IF input.status # Undefined THEN input.status ELSE @,
                      !.delivery_address =
                          IF input.delivery_address # Undefined THEN input.delivery_address ELSE @,
                      !.special_instructions =
                          IF input.special_instructions # Undefined
                          THEN input.special_instructions ELSE @]
    IN IF input.id \notin DOMAIN ordersTable
       THEN /\ last' = Call("updateOrder", input, "Order not found", <<>>)
            /\ UNCHANGED <<session, usersTable, restaurantsTable, menuItemsTable, reservationsTable,
                           ordersTable, orderItemsTable, paymentsTable, serial>>
       ELSE IF /\ input.status = Undefined
               /\ input.delivery_address = Undefined
               /\ input.special_instructions = Undefined
       THEN \* .set({}) of the query builder throws
            /\ last' = CallRead("updateOrder", input, existing, "No values to set", <<>>)
            /\ UNCHANGED <<session, usersTable, restaurantsTable, menuItemsTable, reservationsTable,
                           ordersTable, orderItemsTable, paymentsTable, serial>>
       ELSE /\ ordersTable' = [ordersTable EXCEPT ![input.id] = updated]
            /\ last' = CallRead("updateOrder", input, existing, "", updated)
            /\ UNCHANGED <<session, usersTable, restaurantsTable, menuItemsTable, reservationsTable,
                           orderItemsTable, paymentsTable, serial>>

NextOrderStatus ==
    \/ /\ serial.orders <= MaxStatusOrders
       /\ \E input \in CreateOrderInputs : CreateOrder(input)
    \/ \E input \in UpdateOrderInputs : UpdateOrder(input)

SpecOrderStatus == InitSeeded /\ [][NextOrderStatus]_vars

OrderFlow ==
    {<<"pending", "confirmed">>, <<"confirmed", "preparing">>, <<"preparing", "ready">>,
     <<"ready", "delivered">>} \cup
    {<<s, "cancelled">> : s \in {"pending", "confirmed", "preparing", "ready"}}

\* C3 as stated: every change of an order's status is one step of the flow
\* pending -> confirmed -> preparing -> ready -> delivered or a move to cancelled,
\* and a delivered or cancelled order never changes status
C3_StatusFollowsFlow ==
    [][\A o \in DOMAIN ordersTable :
          ordersTable'[o].status # ordersTable[o].status
              => <<ordersTable[o].status, ordersTable'[o].status>> \in OrderFlow]_vars

\* C3 amended: a change of an order's status is made by a successful updateOrder on
\* that order and sets the status the input names, whatever the status was; an
\* updateOrder whose input names no status, or that fails, leaves every status as it was
C3_StatusIsInputStatus ==
    [][/\ \A o \in DOMAIN ordersTable :
             ordersTable'[o].status # ordersTable[o].status
                 => /\ last'.op = "updateOrder"
                    /\ last'.error = ""
                    /\ last'.args.id = o
                    /\ last'.args.status = ordersTable'[o].status
       /\ (last'.op = "updateOrder" /\ last'.error = "" /\ last'.args.status # Undefined)
             => ordersTable'[last'.args.id].status = last'.args.status]_vars

\* an updateOrder has moved a delivered order back to pending
C3_Witness ==
    /\ last.op = "updateOrder"
    /\ last.error = ""
    /\ last.read.status = "delivered"
    /\ ordersTable[last.args.id].status = "pending"

NextOrders ==
    \/ /\ serial.orders <= MaxOrders
       /\ \E input \in CreateOrderInputs : CreateOrder(input)
    \/ /\ serial.order_items <= MaxOrderItems
       /\ \E input \in CreateOrderItemInputs : AddOrderItem(input)
    \/ \E input \in RemoveOrderItemInputs : RemoveOrderItem(input)

SpecOrders == InitSeeded /\ [][NextOrders]_vars

\* the same handlers with orders of one restaurant and single items whose prices
\* add up to totals that fit the column
OrderOfCustomerInputs == {input \in CreateOrderInputs : input.restaurant_id # 2}

OneOrderItemInputs ==
    {input \in CreateOrderItemInputs :
        /\ input.menu_item_id # 2
        /\ input.quantity = 1
        /\ numericFits(MMul(input.unit_price, MaxOrderItems + 1))}

NextOrderItems ==
    \/ /\ serial.orders <= MaxOrders
       /\ \E input \in OrderOfCustomerInputs : CreateOrder(input)
    \/ /\ serial.order_items <= MaxOrderItems
       /\ \E input \in OneOrderItemInputs : AddOrderItem(input)
    \/ \E input \in RemoveOrderItemInputs : RemoveOrderItem(input)

SpecOrderItems == InitSeeded /\ [][NextOrderItems]_vars

\* the sum of total_price over the order items of the order
RECURSIVE SumTotalPrice(_, _)
SumTotalPrice(ids, orderId) ==
    IF ids = {} THEN Zero
    ELSE LET i == CHOOSE x \in ids : TRUE
             rest == SumTotalPrice(ids \ {i}, orderId)
         IN IF orderItemsTable[i].order_id = orderId
            THEN MAdd(orderItemsTable[i].total_price, rest)
            ELSE rest

\* C1: every order's total_amount is the sum of total_price over its order items
\* (0 when it has none)
C1_TotalIsSumOfItems ==
    \A o \in DOMAIN ordersTable :
        ordersTable[o].total_amount = SumTotalPrice(DOMAIN orderItemsTable, o)

\* C12: every stored order item has total_price = unit_price * quantity, and the item
\* a successful addOrderItem stores has the order_id, menu_item_id, quantity and
\* unit_price of its input
C12_TotalPriceIsUnitPriceTimesQuantity ==
    /\ \A i \in DOMAIN orderItemsTable :
          orderItemsTable[i].total_price =
              MMul(orderItemsTable[i].unit_price, orderItemsTable[i].quantity)
    /\ (last.op = "addOrderItem" /\ last.error = "")
          => /\ last.ret.id \in DOMAIN orderItemsTable
             /\ orderItemsTable[last.ret.id].order_id = last.args.order_id
             /\ orderItemsTable[last.ret.id].menu_item_id = last.args.menu_item_id
             /\ orderItemsTable[last.ret.id].quantity = last.args.quantity
             /\ orderItemsTable[last.ret.id].unit_price = last.args.unit_price

\* C13: addOrderItem throws 'Order not found' when order_id names no order, whatever
\* the menu item, and 'Menu item not found' when the order exists and menu_item_id
\* names no menu item; in both cases no order item is inserted and no order changes
C13_AddOrderItemNotFound ==
    [][last'.op = "addOrderItem" =>
         LET orderExists == last'.args.order_id \in DOMAIN ordersTable
             menuItemExists == last'.args.menu_item_id \in DOMAIN menuItemsTable
         IN /\ ~orderExists
                  => /\ last'.error = "Order not found"
                     /\ orderItemsTable' = orderItemsTable
                     /\ ordersTable' = ordersTable
            /\ (orderExists /\ ~menuItemExists)
                  => /\ last'.error = "Menu item not found"
                     /\ orderItemsTable' = orderItemsTable
                     /\ ordersTable' = ordersTable
            /\ (orderExists /\ menuItemExists)
                  => last'.error \notin {"Order not found", "Menu item not found"}]_vars

\* an addOrderItem naming neither an order nor a menu item has been rejected for the
\* order, while the order has an item and a total
C13_Witness ==
    /\ last.op = "addOrderItem"
    /\ last.error = "Order not found"
    /\ last.args.order_id \notin DOMAIN ordersTable
    /\ last.args.menu_item_id \notin DOMAIN menuItemsTable
    /\ \E i \in DOMAIN orderItemsTable :
          ordersTable[orderItemsTable[i].order_id].total_amount # Zero

\* C14: removeOrderItem(orderItemId, orderId) returns false and changes no order item
\* and no order when no item has that id or the item belongs to another order; when
\* it returns true the item was an item of that order, exactly that item is deleted
\* and every other order is left as it was
C14_RemoveOrderItemFrame ==
    [][last'.op = "removeOrderItem" =>
         LET id == last'.args.orderItemId
             orderId == last'.args.orderId
             found == /\ id \in DOMAIN orderItemsTable
                      /\ orderItemsTable[id].order_id = orderId
         IN /\ last'.error = ""
            /\ ~found => /\ last'.ret = FALSE
                          /\ orderItemsTable' = orderItemsTable
                          /\ ordersTable' = ordersTable
            /\ last'.ret = TRUE
                  => /\ found
                     /\ DOMAIN orderItemsTable' = DOMAIN orderItemsTable \ {id}
                     /\ \A i \in DOMAIN orderItemsTable' :
                           orderItemsTable'[i] = orderItemsTable[i]
                     /\ DOMAIN ordersTable' = DOMAIN ordersTable
                     /\ \A o \in DOMAIN ordersTable \ {orderId} :
                           ordersTable'[o] = ordersTable[o]]_vars

\* a removeOrderItem naming an item of another existing order has returned false
C14_Witness ==
    /\ last.op = "removeOrderItem"
    /\ last.ret = FALSE
    /\ last.args.orderItemId \in DOMAIN orderItemsTable
    /\ last.args.orderId \in DOMAIN ordersTable
    /\ orderItemsTable[last.args.orderItemId].order_id # last.args.orderId

\* C15: createOrder throws 'Customer not found' when customer_id names no user and
\* 'Restaurant not found' when the customer exists and restaurant_id names no
\* restaurant, storing no order; when both exist it stores exactly one new order, of
\* that customer and restaurant, with status 'pending' and total_amount 0
C15_CreateOrderChecks ==
    [][last'.op = "createOrder" =>
         LET customerExists == last'.args.customer_id \in DOMAIN usersTable
             restaurantExists == last'.args.restaurant_id \in DOMAIN restaurantsTable
         IN /\ ~customerExists
                  => last'.error = "Customer not found" /\ ordersTable' = ordersTable
            /\ (customerExists /\ ~restaurantExists)
                  => last'.error = "Restaurant not found" /\ ordersTable' = ordersTable
            /\ (customerExists /\ restaurantExists)
                  => /\ last'.error = ""
                     /\ \E new \in DOMAIN ordersTable' \ DOMAIN ordersTable :
                           /\ DOMAIN ordersTable' = DOMAIN ordersTable \cup {new}
                           /\ ordersTable'[new].customer_id = last'.args.customer_id
                           /\ ordersTable'[new].restaurant_id = last'.args.restaurant_id
                           /\ ordersTable'[new].status = "pending"
                           /\ ordersTable'[new].total_amount = Zero
                     /\ \A o \in DOMAIN ordersTable : ordersTable'[o] = ordersTable[o]]_vars

\* a second order has been created with total 0 while the first has items
C15_Witness ==
    /\ last.op = "createOrder"
    /\ last.error = ""
    /\ ordersTable[last.ret.id].status = "pending"
    /\ ordersTable[last.ret.id].total_amount = Zero
    /\ \E o \in DOMAIN ordersTable : ordersTable[o].total_amount # Zero

-----------------------------------------------------------------------------
(* reservations.ts *)

CreateReservationInputs ==
    [customer_id : {1, MissingId}, restaurant_id : {1, MissingId}, special_requests : Texts]

\* createReservation without the lookup of the customer
CreateReservation_NoCustomerCheck(input) ==
    LET id == serial.reservations
        reservation == [id |-> id, customer_id |-> input.customer_id,
                        restaurant_id |-> input.restaurant_id, status |-> "pending",
                        special_requests |-> input.special_requests]
    IN IF input.restaurant_id \notin DOMAIN restaurantsTable
       THEN /\ last' = Call("createReservation", input, "Restaurant not found", <<>>)
            /\ UNCHANGED <<session, usersTable, restaurantsTable, menuItemsTable, reservationsTable,
                           ordersTable, orderItemsTable, paymentsTable, serial>>
       ELSE /\ reservationsTable' = Put(reservationsTable, id, reservation)
            /\ serial' = [serial EXCEPT !.reservations = id + 1]
            /\ last' = Call("createReservation", input, "", reservation)
            /\ UNCHANGED <<session, usersTable, restaurantsTable, menuItemsTable, ordersTable,
                           orderItemsTable, paymentsTable>>

CreateReservation(input) ==
    LET id == serial.reservations
        reservation == [id |-> id, customer_id |-> input.customer_id,
                        restaurant_id |-> input.restaurant_id, status |-> "pending",
                        special_requests |-> input.special_requests]
    IN IF input.customer_id \notin DOMAIN usersTable
       THEN /\ last' = Call("createReservation", input, "Customer not found", <<>>)
            /\ UNCHANGED <<session, usersTable, restaurantsTable, menuItemsTable, reservationsTable,
                           ordersTable, orderItemsTable, paymentsTable, serial>>
       ELSE IF input.restaurant_id \notin DOMAIN restaurantsTable
       THEN /\ last' = Call("createReservation", input, "Restaurant not found", <<>>)
            /\ UNCHANGED <<session, usersTable, restaurantsTable, menuItemsTable, reservationsTable,
                           ordersTable, orderItemsTable, paymentsTable, serial>>
       ELSE /\ reservationsTable' = Put(reservationsTable, id, reservation)
            /\ serial' = [serial EXCEPT !.reservations = id + 1]
            /\ last' = Call("createReservation", input, "", reservation)
            /\ UNCHANGED <<session, usersTable, restaurantsTable, menuItemsTable, ordersTable,
                           orderItemsTable, paymentsTable>>

UpdateReservationInputs ==
    [id : 1..MaxReservations \cup {MissingId}, status : reservationStatusEnum \cup {Undefined},
     special_requests : Texts \cup {Undefined}]

\* updateReservation writing 'pending' when the input names no status
UpdateReservation_DefaultStatus(input) ==
    LET existing == reservationsTable[input.id]
        updated == [existing EXCEPT
                      !.status = IF input.status # Undefined THEN input.status ELSE "pending",
                      !.special_requests =
                          IF input.special_requests # Undefined THEN input.special_requests ELSE @]
    IN IF input.id \notin DOMAIN reservationsTable
       THEN /\ last' = Call("updateReservation", input, "Reservation not found", <<>>)
            /\ UNCHANGED <<session, usersTable, restaurantsTable, menuItemsTable, reservationsTable,
                           ordersTable, orderItemsTable, paymentsTable, serial>>
       ELSE /\ reservationsTable' = [reservationsTable EXCEPT ![input.id] = updated]
            /\ last' = CallRead("updateReservation", input, existing, "", updated)
            /\ UNCHANGED <<session, usersTable, restaurantsTable, menuItemsTable, ordersTable,
                           orderItemsTable, paymentsTable, serial>>

UpdateReservation(input) ==
    LET existing == reservationsTable[input.id]
        \* updated_at is always set, so the update is never empty
        updated == [existing EXCEPT
                      !.status = IF input.status # Undefined THEN input.status ELSE @,
                      !.special_requests =
                          IF input.special_requests # Undefined THEN input.special_requests ELSE @]
    IN IF input.id \notin DOMAIN reservationsTable
       THEN /\ last' = Call("updateReservation", input, "Reservation not found", <<>>)
            /\ UNCHANGED <<session, usersTable, restaurantsTable, menuItemsTable, reservationsTable,
                           ordersTable, orderItemsTable, paymentsTable, serial>>
       ELSE /\ reservationsTable' = [reservationsTable EXCEPT ![input.id] = updated]
            /\ last' = CallRead("updateReservation", input, existing, "", updated)
            /\ UNCHANGED <<session, usersTable, restaurantsTable, menuItemsTable, ordersTable,
                           orderItemsTable, paymentsTable, serial>>

CancelReservationInputs ==
    [id : 1..MaxReservations \cup {MissingId}, userId : {1, 2, 3, MissingId}]

\* cancelReservation without the ownership check
CancelReservation_NoOwnershipCheck(input) ==
    LET joined == {r \in DOMAIN reservationsTable :
                      r = input.id /\ reservationsTable[r].restaurant_id \in DOMAIN restaurantsTable}
        reservationData == reservationsTable[input.id]
    IN IF joined = {}
       THEN /\ last' = Call("cancelReservation", input, "Reservation not found", <<>>)
            /\ UNCHANGED <<session, usersTable, restaurantsTable, menuItemsTable, reservationsTable,
                           ordersTable, orderItemsTable, paymentsTable, serial>>
       ELSE /\ reservationsTable' = [reservationsTable EXCEPT ![input.id].status = "cancelled"]
            /\ last' = CallRead("cancelReservation", input, reservationData, "", TRUE)
            /\ UNCHANGED <<session, usersTable, restaurantsTable, menuItemsTable, ordersTable,
                           orderItemsTable, paymentsTable, serial>>

CancelReservation(input) ==
    LET \* reservations inner join restaurants where reservations.id = id
        joined == {r \in DOMAIN reservationsTable :
                      r = input.id /\ reservationsTable[r].restaurant_id \in DOMAIN restaurantsTable}
        reservationData == reservationsTable[input.id]
        restaurantData == restaurantsTable[reservationData.restaurant_id]
        isCustomer == reservationData.customer_id = input.userId
        isPartner == restaurantData.partner_id = input.userId
    IN IF joined = {}
       THEN /\ last' = Call("cancelReservation", input, "Reservation not found", <<>>)
            /\ UNCHANGED <<session, usersTable, restaurantsTable, menuItemsTable, reservationsTable,
                           ordersTable, orderItemsTable, paymentsTable, serial>>
       ELSE IF ~isCustomer /\ ~isPartner
       THEN /\ last' = CallRead("cancelReservation", input, reservationData,
                                "Unauthorized to cancel this reservation", <<>>)
            /\ UNCHANGED <<session, usersTable, restaurantsTable, menuItemsTable, reservationsTable,
                           ordersTable, orderItemsTable, paymentsTable, serial>>
       ELSE /\ reservationsTable' = [reservationsTable EXCEPT ![input.id].status = "cancelled"]
            /\ last' = CallRead("cancelReservation", input, reservationData, "", TRUE)
            /\ UNCHANGED <<session, usersTable, restaurantsTable, menuItemsTable, ordersTable,
                           orderItemsTable, paymentsTable, serial>>

NextReservations ==
    \/ /\ serial.reservations <= MaxReservations
       /\ \E input \in CreateReservationInputs : CreateReservation(input)
    \/ \E input \in UpdateReservationInputs : UpdateReservation(input)
    \/ \E input \in CancelReservationInputs : CancelReservation(input)

SpecReservations == InitSeeded /\ [][NextReservations]_vars

ReservationFlow ==
    {<<"pending", "confirmed">>, <<"pending", "cancelled">>,
     <<"confirmed", "completed">>, <<"cancelled", "completed">>}

\* C4 as stated: a reservation leaves pending only to confirmed or cancelled, becomes
\* completed only from confirmed or cancelled, never returns to pending and never
\* changes status once completed
C4_StatusFollowsFlow ==
    [][\A r \in DOMAIN reservationsTable :
          reservationsTable'[r].status # reservationsTable[r].status
              => <<reservationsTable[r].status, reservationsTable'[r].status>> \in ReservationFlow]_vars

\* C4 amended: a change of a reservation's status is made either by a successful
\* updateReservation on it, which sets the status its input names whatever the status
\* was, or by a successful cancelReservation on it, which sets 'cancelled' whatever
\* the status was; an updateReservation whose input names no status changes no status
C4_StatusIsInputOrCancelled ==
    [][/\ \A r \in DOMAIN reservationsTable :
             reservationsTable'[r].status # reservationsTable[r].status
                 => /\ last'.error = ""
                    /\ last'.args.id = r
                    /\ \/ /\ last'.op = "updateReservation"
                          /\ last'.args.status = reservationsTable'[r].status
                       \/ /\ last'.op = "cancelReservation"
                          /\ reservationsTable'[r].status = "cancelled"
       /\ (last'.op = "updateReservation" /\ last'.error = "" /\ last'.args.status # Undefined)
             => reservationsTable'[last'.args.id].status = last'.args.status
       /\ (last'.op = "cancelReservation" /\ last'.error = "")
             => reservationsTable'[last'.args.id].status = "cancelled"]_vars

\* a cancelReservation has moved a completed reservation to cancelled
C4_Witness ==
    /\ last.op = "cancelReservation"
    /\ last.error = ""
    /\ last.read.status = "completed"
    /\ reservationsTable[last.args.id].status = "cancelled"

\* C8: cancelReservation(id, userId) returns true and sets the status to 'cancelled'
\* exactly when the reservation exists and userId is its customer or the partner of
\* its restaurant; otherwise it throws 'Reservation not found' (unknown id) or
\* 'Unauthorized to cancel this reservation' and no reservation changes
C8_CancelOnlyByCustomerOrPartner ==
    [][last'.op = "cancelReservation" =>
         LET id == last'.args.id
             userId == last'.args.userId
             exists == id \in DOMAIN reservationsTable
             owner == \/ reservationsTable[id].customer_id = userId
                      \/ restaurantsTable[reservationsTable[id].restaurant_id].partner_id = userId
         IN /\ ~exists => /\ last'.error = "Reservation not found"
                           /\ reservationsTable' = reservationsTable
            /\ (exists /\ ~owner) => /\ last'.error = "Unauthorized to cancel this reservation"
                                      /\ reservationsTable' = reservationsTable
            /\ (exists /\ owner) => /\ last'.error = ""
                                     /\ last'.ret = TRUE
                                     /\ reservationsTable' =
                                            [reservationsTable EXCEPT ![id].status = "cancelled"]]_vars

\* the restaurant's partner, who is not the customer, has cancelled a reservation
C8_Witness ==
    /\ last.op = "cancelReservation"
    /\ last.error = ""
    /\ last.ret = TRUE
    /\ last.args.userId # reservationsTable[last.args.id].customer_id
    /\ last.args.userId = restaurantsTable[reservationsTable[last.args.id].restaurant_id].partner_id
    /\ reservationsTable[last.args.id].status = "cancelled"

\* C16: createReservation throws 'Customer not found' when customer_id names no user
\* and 'Restaurant not found' when the customer exists and restaurant_id names no
\* restaurant, storing no reservation; when both exist it stores exactly one new
\* reservation, of that customer and restaurant, with status 'pending'
C16_CreateReservationChecks ==
    [][last'.op = "createReservation" =>
         LET customerExists == last'.args.customer_id \in DOMAIN usersTable
             restaurantExists == last'.args.restaurant_id \in DOMAIN restaurantsTable
         IN /\ ~customerExists
                  => last'.error = "Customer not found" /\ reservationsTable' = reservationsTable
            /\ (customerExists /\ ~restaurantExists)
                  => last'.error = "Restaurant not found" /\ reservationsTable' = reservationsTable
            /\ (customerExists /\ restaurantExists)
                  => /\ last'.error = ""
                     /\ \E new \in DOMAIN reservationsTable' \ DOMAIN reservationsTable :
                           /\ DOMAIN reservationsTable' = DOMAIN reservationsTable \cup {new}
                           /\ reservationsTable'[new].customer_id = last'.args.customer_id
                           /\ reservationsTable'[new].restaurant_id = last'.args.restaurant_id
                           /\ reservationsTable'[new].status = "pending"
                     /\ \A r \in DOMAIN reservationsTable :
                           reservationsTable'[r] = reservationsTable[r]]_vars

\* a reservation has been created as pending while an earlier one is no longer pending
C16_Witness ==
    /\ last.op = "createReservation"
    /\ last.error = ""
    /\ reservationsTable[last.ret.id].status = "pending"
    /\ \E r \in DOMAIN reservationsTable : reservationsTable[r].status # "pending"

-----------------------------------------------------------------------------
(* payments.ts *)

\* The database as the payment tests seed it: the users and restaurants above, one
\* order and one reservation of the customer inserted directly into their tables.
SeedOrders ==
    (1 :> [id |-> 1, customer_id |-> 1, restaurant_id |-> 1, status |-> "pending",
           total_amount |-> Money(25, 990), delivery_address |-> "456 Customer St",
           special_instructions |-> "Test order"])

SeedReservations ==
    (1 :> [id |-> 1, customer_id |-> 1, restaurant_id |-> 1, status |-> "pending",
           special_requests |-> "Window seat please"])

InitPayments ==
    /\ usersTable = SeedUsers
    /\ restaurantsTable = SeedRestaurants
    /\ menuItemsTable = SeedMenuItems
    /\ reservationsTable = SeedReservations
    /\ ordersTable = SeedOrders
    /\ orderItemsTable = << >>
    /\ paymentsTable = << >>
    /\ serial = [users |-> 4, restaurants |-> 3, menu_items |-> 3, reservations |-> 2,
                 orders |-> 2, order_items |-> 1, payments |-> 1]
    /\ last = NoCall
    /\ calls = << >>
    /\ orders = << >>
    /\ cart = << >>

CreatePaymentInputs ==
    [user_id : {1, MissingId}, order_id : {NULL, 1, MissingId},
     reservation_id : {NULL, 1, MissingId}, type : paymentTypeEnum, amount : {Money(25, 990)}]

\* createPayment keeping only the reference that matches the type
CreatePayment_ReferenceByType(input) ==
    LET id == serial.payments
        payment == [id |-> id, user_id |-> input.user_id,
                    order_id |-> IF input.type = "order" THEN input.order_id ELSE NULL,
                    reservation_id |->
                        IF input.type = "reservation" THEN input.reservation_id ELSE NULL,
                    type |-> input.type, amount |-> toNumeric(input.amount),
                    status |-> "pending", transaction_id |-> NullText]
    IN IF input.user_id \notin DOMAIN usersTable
       THEN /\ last' = Call("createPayment", input, "User not found", <<>>)
            /\ UNCHANGED <<session, usersTable, restaurantsTable, menuItemsTable, reservationsTable,
                           ordersTable, orderItemsTable, paymentsTable, serial>>
       ELSE IF input.type = "order" /\ input.order_id # NULL
               /\ input.order_id \notin DOMAIN ordersTable
       THEN /\ last' = Call("createPayment", input, "Order not found", <<>>)
            /\ UNCHANGED <<session, usersTable, restaurantsTable, menuItemsTable, reservationsTable,
                           ordersTable, orderItemsTable, paymentsTable, serial>>
       ELSE IF input.type = "reservation" /\ input.reservation_id # NULL
               /\ input.reservation_id \notin DOMAIN reservationsTable
       THEN /\ last' = Call("createPayment", input, "Reservation not found", <<>>)
            /\ UNCHANGED <<session, usersTable, restaurantsTable, menuItemsTable, reservationsTable,
                           ordersTable, orderItemsTable, paymentsTable, serial>>
       ELSE /\ paymentsTable' = Put(paymentsTable, id, payment)
            /\ serial' = [serial EXCEPT !.payments = id + 1]
            /\ last' = Call("createPayment", input, "", payment)
            /\ UNCHANGED <<session, usersTable, restaurantsTable, menuItemsTable, reservationsTable,
                           ordersTable, orderItemsTable>>

\* createPayment without the lookup of the user
CreatePayment_NoUserCheck(input) ==
    LET id == serial.payments
        payment == [id |-> id, user_id |-> input.user_id, order_id |-> input.order_id,
                    reservation_id |-> input.reservation_id, type |-> input.type,
                    amount |-> toNumeric(input.amount), status |-> "pending",
                    transaction_id |-> NullText]
        \* the references(...) constraints of payments.order_id and payments.reservation_id
        foreignKeysHold ==
            /\ input.order_id # NULL => input.order_id \in DOMAIN ordersTable
            /\ input.reservation_id # NULL => input.reservation_id \in DOMAIN reservationsTable
    IN IF input.type = "order" /\ input.order_id # NULL
               /\ input.order_id \notin DOMAIN ordersTable
       THEN /\ last' = Call("createPayment", input, "Order not found", <<>>)
            /\ UNCHANGED <<session, usersTable, restaurantsTable, menuItemsTable, reservationsTable,
                           ordersTable, orderItemsTable, paymentsTable, serial>>
       ELSE IF input.type = "reservation" /\ input.reservation_id # NULL
               /\ input.reservation_id \notin DOMAIN reservationsTable
       THEN /\ last' = Call("createPayment", input, "Reservation not found", <<>>)
            /\ UNCHANGED <<session, usersTable, restaurantsTable, menuItemsTable, reservationsTable,
                           ordersTable, orderItemsTable, paymentsTable, serial>>
       ELSE IF ~foreignKeysHold \/ ~numericFits(input.amount)
       THEN \* the insert is rejected by the database; the sequence value is consumed
            /\ serial' = [serial EXCEPT !.payments = id + 1]
            /\ last' = Call("createPayment", input,
                            IF ~numericFits(input.amount) THEN "numeric field overflow"
                            ELSE "violates foreign key constraint", <<>>)
            /\ UNCHANGED <<session, usersTable, restaurantsTable, menuItemsTable, reservationsTable,
                           ordersTable, orderItemsTable, paymentsTable>>
       ELSE /\ paymentsTable' = Put(paymentsTable, id, payment)
            /\ serial' = [serial EXCEPT !.payments = id + 1]
            /\ last' = Call("createPayment", input, "", payment)
            /\ UNCHANGED <<session, usersTable, restaurantsTable, menuItemsTable, reservationsTable,
                           ordersTable, orderItemsTable>>

CreatePayment(input) ==
    LET id == serial.payments
        payment == [id |-> id, user_id |-> input.user_id, order_id |-> input.order_id,
                    reservation_id |-> input.reservation_id, type |-> input.type,
                    amount |-> toNumeric(input.amount), status |-> "pending",
                    transaction_id |-> NullText]
        \* the references(...) constraints of payments.order_id and payments.reservation_id
        foreignKeysHold ==
            /\ input.order_id # NULL => input.order_id \in DOMAIN ordersTable
            /\ input.reservation_id # NULL => input.reservation_id \in DOMAIN reservationsTable
    IN IF input.user_id \notin DOMAIN usersTable
       THEN /\ last' = Call("createPayment", input, "User not found", <<>>)
            /\ UNCHANGED <<session, usersTable, restaurantsTable, menuItemsTable, reservationsTable,
                           ordersTable, orderItemsTable, paymentsTable, serial>>
       ELSE IF input.type = "order" /\ input.order_id # NULL
               /\ input.order_id \notin DOMAIN ordersTable
       THEN /\ last' = Call("createPayment", input, "Order not found", <<>>)
            /\ UNCHANGED <<session, usersTable, restaurantsTable, menuItemsTable, reservationsTable,
                           ordersTable, orderItemsTable, paymentsTable, serial>>
       ELSE IF input.type = "reservation" /\ input.reservation_id # NULL
               /\ input.reservation_id \notin DOMAIN reservationsTable
       THEN /\ last' = Call("createPayment", input, "Reservation not found", <<>>)
            /\ UNCHANGED <<session, usersTable, restaurantsTable, menuItemsTable, reservationsTable,
                           ordersTable, orderItemsTable, paymentsTable, serial>>
       ELSE IF ~foreignKeysHold \/ ~numericFits(input.amount)
       THEN \* the insert is rejected by the database; the sequence value is consumed
            /\ serial' = [serial EXCEPT !.payments = id + 1]
            /\ last' = Call("createPayment", input,
                            IF ~numericFits(input.amount) THEN "numeric field overflow"
                            ELSE "violates foreign key constraint", <<>>)
            /\ UNCHANGED <<session, usersTable, restaurantsTable, menuItemsTable, reservationsTable,
                           ordersTable, orderItemsTable, paymentsTable>>
       ELSE /\ paymentsTable' = Put(paymentsTable, id, payment)
            /\ serial' = [serial EXCEPT !.payments = id + 1]
            /\ last' = Call("createPayment", input, "", payment)
            /\ UNCHANGED <<session, usersTable, restaurantsTable, menuItemsTable, reservationsTable,
                           ordersTable, orderItemsTable>>

UpdatePaymentInputs ==
    [id : 1..MaxStatusPayments \cup {MissingId}, status : paymentStatusEnum \cup {Undefined},
     transaction_id : {Undefined, NullText, "txn_12345"}]

\* updatePayment writing 'pending' when the input names no status
UpdatePayment_DefaultStatus(input) ==
    LET existing == paymentsTable[input.id]
        updated == [existing EXCEPT
                      !.status = IF input.status # Undefined THEN input.status ELSE "pending",
                      !.transaction_id =
                          IF input.transaction_id # Undefined THEN input.transaction_id ELSE @]
    IN IF input.id \notin DOMAIN paymentsTable
       THEN /\ last' = Call("updatePayment", input, "Payment not found", <<>>)
            /\ UNCHANGED <<session, usersTable, restaurantsTable, menuItemsTable, reservationsTable,
                           ordersTable, orderItemsTable, paymentsTable, serial>>
       ELSE /\ paymentsTable' = [paymentsTable EXCEPT ![input.id] = updated]
            /\ last' = CallRead("updatePayment", input, existing, "", updated)
            /\ UNCHANGED <<session, usersTable, restaurantsTable, menuItemsTable, reservationsTable,
                           ordersTable, orderItemsTable, serial>>

UpdatePayment(input) ==
    LET existing == paymentsTable[input.id]
        \* updated_at is always set, so the update is never empty
        updated == [existing EXCEPT
                      !.status = IF input.status # Undefined THEN input.status ELSE @,
                      !.transaction_id =
                          IF input.transaction_id # Undefined THEN input.transaction_id ELSE @]
    IN IF input.id \notin DOMAIN paymentsTable
       THEN /\ last' = Call("updatePayment", input, "Payment not found", <<>>)
            /\ UNCHANGED <<session, usersTable, restaurantsTable, menuItemsTable, reservationsTable,
                           ordersTable, orderItemsTable, paymentsTable, serial>>
       ELSE /\ paymentsTable' = [paymentsTable EXCEPT ![input.id] = updated]
            /\ last' = CallRead("updatePayment", input, existing, "", updated)
            /\ UNCHANGED <<session, usersTable, restaurantsTable, menuItemsTable, reservationsTable,
                           ordersTable, orderItemsTable, serial>>

\* `${Date.now()}_${Math.random().toString(36).substr(2, 9)}`: any of these
Nonces == {"1700000000000_k3j9x2m1q", "1700000000001_z8w0c4v7b"}

PaymentIdInputs == [paymentId : 1..MaxStatusPayments \cup {MissingId}]

\* processPayment without the check of the status
ProcessPayment_NoStatusCheck(input, nonce) ==
    LET existingPayment == paymentsTable[input.paymentId]
        transactionId == "txn_" \o nonce
        updated == [existingPayment EXCEPT !.status = "processing",
                                           !.transaction_id = transactionId]
    IN IF input.paymentId \notin DOMAIN paymentsTable
       THEN /\ last' = Call("processPayment", input, "Payment not found", <<>>)
            /\ UNCHANGED <<session, usersTable, restaurantsTable, menuItemsTable, reservationsTable,
                           ordersTable, orderItemsTable, paymentsTable, serial>>
       ELSE /\ paymentsTable' = [paymentsTable EXCEPT ![input.paymentId] = updated]
            /\ last' = CallRead("processPayment", input, existingPayment, "", updated)
            /\ UNCHANGED <<session, usersTable, restaurantsTable, menuItemsTable, reservationsTable,
                           ordersTable, orderItemsTable, serial>>

ProcessPayment(input, nonce) ==
    LET existingPayment == paymentsTable[input.paymentId]
        transactionId == "txn_" \o nonce
        updated == [existingPayment EXCEPT !.status = "processing",
                                           !.transaction_id = transactionId]
    IN IF input.paymentId \notin DOMAIN paymentsTable
       THEN /\ last' = Call("processPayment", input, "Payment not found", <<>>)
            /\ UNCHANGED <<session, usersTable, restaurantsTable, menuItemsTable, reservationsTable,
                           ordersTable, orderItemsTable, paymentsTable, serial>>
       ELSE IF existingPayment.status # "pending"
       THEN /\ last' = CallRead("processPayment", input, existingPayment,
                                "Cannot process payment with status: " \o existingPayment.status,
                                <<>>)
            /\ UNCHANGED <<session, usersTable, restaurantsTable, menuItemsTable, reservationsTable,
                           ordersTable, orderItemsTable, paymentsTable, serial>>
       ELSE /\ paymentsTable' = [paymentsTable EXCEPT ![input.paymentId] = updated]
            /\ last' = CallRead("processPayment", input, existingPayment, "", updated)
            /\ UNCHANGED <<session, usersTable, restaurantsTable, menuItemsTable, reservationsTable,
                           ordersTable, orderItemsTable, serial>>

\* refundPayment refunding every payment that is not pending
RefundPayment_NotPending(input, nonce) ==
    LET existingPayment == paymentsTable[input.paymentId]
        refundTransactionId == "refund_" \o nonce
        updated == [existingPayment EXCEPT !.status = "refunded",
                                           !.transaction_id = refundTransactionId]
    IN IF input.paymentId \notin DOMAIN paymentsTable
       THEN /\ last' = Call("refundPayment", input, "Payment not found", <<>>)
            /\ UNCHANGED <<session, usersTable, restaurantsTable, menuItemsTable, reservationsTable,
                           ordersTable, orderItemsTable, paymentsTable, serial>>
       ELSE IF existingPayment.status = "pending"
       THEN /\ last' = CallRead("refundPayment", input, existingPayment,
                                "Cannot refund payment with status: " \o existingPayment.status,
                                <<>>)
            /\ UNCHANGED <<session, usersTable, restaurantsTable, menuItemsTable, reservationsTable,
                           ordersTable, orderItemsTable, paymentsTable, serial>>
       ELSE /\ paymentsTable' = [paymentsTable EXCEPT ![input.paymentId] = updated]
            /\ last' = CallRead("refundPayment", input, existingPayment, "", updated)
            /\ UNCHANGED <<session, usersTable, restaurantsTable, menuItemsTable, reservationsTable,
                           ordersTable, orderItemsTable, serial>>

RefundPayment(input, nonce) ==
    LET existingPayment == paymentsTable[input.paymentId]
        refundTransactionId == "refund_" \o nonce
        updated == [existingPayment EXCEPT !.status = "refunded",
                                           !.transaction_id = refundTransactionId]
    IN IF input.paymentId \notin DOMAIN paymentsTable
       THEN /\ last' = Call("refundPayment", input, "Payment not found", <<>>)
            /\ UNCHANGED <<session, usersTable, restaurantsTable, menuItemsTable, reservationsTable,
                           ordersTable, orderItemsTable, paymentsTable, serial>>
       ELSE IF existingPayment.status # "completed"
       THEN /\ last' = CallRead("refundPayment", input, existingPayment,
                                "Cannot refund payment with status: " \o existingPayment.status,
                                <<>>)
            /\ UNCHANGED <<session, usersTable, restaurantsTable, menuItemsTable, reservationsTable,
                           ordersTable, orderItemsTable, paymentsTable, serial>>
       ELSE /\ paymentsTable' = [paymentsTable EXCEPT ![input.paymentId] = updated]
            /\ last' = CallRead("refundPayment", input, existingPayment, "", updated)
            /\ UNCHANGED <<session, usersTable, restaurantsTable, menuItemsTable, reservationsTable,
                           ordersTable, orderItemsTable, serial>>

\* payments of the seeded order, as the calls of the status handlers are set up
OrderPaymentInputs ==
    {i \in CreatePaymentInputs : i.type = "order" /\ i.order_id = 1 /\ i.reservation_id = NULL}

NextPayments ==
    \/ /\ serial.payments <= MaxStatusPayments
       /\ \E input \in OrderPaymentInputs : CreatePayment(input)
    \/ \E input \in UpdatePaymentInputs : UpdatePayment(input)
    \/ \E input \in PaymentIdInputs, nonce \in Nonces : ProcessPayment(input, nonce)
    \/ \E input \in PaymentIdInputs, nonce \in Nonces : RefundPayment(input, nonce)

SpecPayments == InitPayments /\ [][NextPayments]_vars

PaymentFlow ==
    {<<"pending", "processing">>, <<"processing", "completed">>, <<"completed", "refunded">>}
    \cup {<<s, "failed">> : s \in paymentStatusEnum \ {"failed"}}

\* C2 as stated: every change of a payment's status made by updatePayment,
\* processPayment or refundPayment is an edge of the flow
\* pending -> processing -> completed -> refunded, or a move to failed
C2_StatusFollowsFlow ==
    [][\A p \in DOMAIN paymentsTable :
          paymentsTable'[p].status # paymentsTable[p].status
              => <<paymentsTable[p].status, paymentsTable'[p].status>> \in PaymentFlow]_vars

\* C2 amended: processPayment changes a status only from pending to processing and
\* refundPayment only from completed to refunded; every other change of a status is
\* made by a successful updatePayment on that payment and sets the status its input
\* names, whatever the status was
C2_StatusChangeByHandler ==
    [][/\ \A p \in DOMAIN paymentsTable :
             paymentsTable'[p].status # paymentsTable[p].status
                 => /\ last'.error = ""
                    /\ \/ /\ last'.op = "processPayment"
                          /\ last'.args.paymentId = p
                          /\ paymentsTable[p].status = "pending"
                          /\ paymentsTable'[p].status = "processing"
                       \/ /\ last'.op = "refundPayment"
                          /\ last'.args.paymentId = p
                          /\ paymentsTable[p].status = "completed"
                          /\ paymentsTable'[p].status = "refunded"
                       \/ /\ last'.op = "updatePayment"
                          /\ last'.args.id = p
                          /\ last'.args.status = paymentsTable'[p].status
       /\ (last'.op = "updatePayment" /\ last'.error = "" /\ last'.args.status # Undefined)
             => paymentsTable'[last'.args.id].status = last'.args.status]_vars

\* an updatePayment has moved a pending payment straight to completed
C2_Witness ==
    /\ last.op = "updatePayment"
    /\ last.error = ""
    /\ last.read.status = "pending"
    /\ paymentsTable[last.args.id].status = "completed"

\* C6: processPayment succeeds exactly when the payment exists and is pending, and
\* then sets the status to 'processing' and a transaction_id beginning with 'txn_';
\* for an unknown id it throws 'Payment not found', for any other status 'Cannot
\* process payment with status', and in both cases the payments are left as they were
C6_ProcessOnlyPending ==
    [][last'.op = "processPayment" =>
         LET id == last'.args.paymentId
             exists == id \in DOMAIN paymentsTable
         IN /\ ~exists => /\ last'.error = "Payment not found"
                           /\ paymentsTable' = paymentsTable
            /\ (exists /\ paymentsTable[id].status # "pending")
                  => /\ StartsWith(last'.error, "Cannot process payment with status")
                     /\ paymentsTable' = paymentsTable
            /\ (exists /\ paymentsTable[id].status = "pending")
                  => /\ last'.error = ""
                     /\ paymentsTable'[id].status = "processing"
                     /\ StartsWith(paymentsTable'[id].transaction_id, "txn_")
                     /\ \A q \in DOMAIN paymentsTable \ {id} : paymentsTable'[q] = paymentsTable[q]]_vars

\* a second processPayment on a payment that is being processed has been rejected
C6_Witness ==
    /\ last.op = "processPayment"
    /\ StartsWith(last.error, "Cannot process payment with status")
    /\ paymentsTable[last.args.paymentId].status = "processing"
    /\ StartsWith(paymentsTable[last.args.paymentId].transaction_id, "txn_")

\* C7: refundPayment succeeds exactly when the payment exists and is completed, and
\* then sets the status to 'refunded' and a transaction_id beginning with 'refund_';
\* for an unknown id it throws 'Payment not found', for any other status 'Cannot
\* refund payment with status', and in both cases the payments are left as they
\* were, so a refunded payment is not refunded again
C7_RefundOnlyCompleted ==
    [][last'.op = "refundPayment" =>
         LET id == last'.args.paymentId
             exists == id \in DOMAIN paymentsTable
         IN /\ ~exists => /\ last'.error = "Payment not found"
                           /\ paymentsTable' = paymentsTable
            /\ (exists /\ paymentsTable[id].status # "completed")
                  => /\ StartsWith(last'.error, "Cannot refund payment with status")
                     /\ paymentsTable' = paymentsTable
            /\ (exists /\ paymentsTable[id].status = "completed")
                  => /\ last'.error = ""
                     /\ paymentsTable'[id].status = "refunded"
                     /\ StartsWith(paymentsTable'[id].transaction_id, "refund_")
                     /\ \A q \in DOMAIN paymentsTable \ {id} : paymentsTable'[q] = paymentsTable[q]]_vars

\* a second refundPayment on a refunded payment has been rejected
C7_Witness ==
    /\ last.op = "refundPayment"
    /\ StartsWith(last.error, "Cannot refund payment with status")
    /\ paymentsTable[last.args.paymentId].status = "refunded"
    /\ StartsWith(paymentsTable[last.args.paymentId].transaction_id, "refund_")

NextCreatePayment ==
    /\ serial.payments <= MaxPayments
    /\ \E input \in CreatePaymentInputs : CreatePayment(input)

SpecCreatePayment == InitPayments /\ [][NextCreatePayment]_vars

C17_CreatePaymentPendingOrFails ==
    [][last'.op = "createPayment" =>
         LET input == last'.args
             userExists == input.user_id \in DOMAIN usersTable
         IN /\ ~userExists => last'.error = "User not found"
            /\ (userExists /\ input.type = "order" /\ input.order_id # NULL
                   /\ input.order_id \notin DOMAIN ordersTable)
                  => last'.error = "Order not found"
            /\ (userExists /\ input.type = "reservation" /\ input.reservation_id # NULL
                   /\ input.reservation_id \notin DOMAIN reservationsTable)
                  => last'.error = "Reservation not found"
            /\ last'.error # "" => paymentsTable' = paymentsTable
            /\ last'.error = ""
                  => /\ \E new \in DOMAIN paymentsTable' \ DOMAIN paymentsTable :
                           /\ DOMAIN paymentsTable' = DOMAIN paymentsTable \cup {new}
                           /\ paymentsTable'[new].status = "pending"
                           /\ paymentsTable'[new].transaction_id = NullText
                           /\ paymentsTable'[new].user_id = input.user_id
                     /\ \A q \in DOMAIN paymentsTable : paymentsTable'[q] = paymentsTable[q]]_vars

\* after a payment was stored as pending with no transaction id, a payment of type
\* 'reservation' naming no reservation has been rejected
C17_Witness ==
    /\ last.op = "createPayment"
    /\ last.error = "Reservation not found"
    /\ last.args.type = "reservation"
    /\ \E q \in DOMAIN paymentsTable :
          paymentsTable[q].status = "pending" /\ paymentsTable[q].transaction_id = NullText


-----------------------------------------------------------------------------
(* menu_items.ts *)

\* an order item of the seeded order, for the menu item of the second restaurant
SeedOrderItems ==
    (1 :> [id |-> 1, order_id |-> 1, menu_item_id |-> 2, quantity |-> 1,
           unit_price |-> Money(25, 990), total_price |-> Money(25, 990)])

InitMenuItems ==
    /\ usersTable = SeedUsers
    /\ restaurantsTable = SeedRestaurants
    /\ menuItemsTable = SeedMenuItems
    /\ reservationsTable = SeedReservations
    /\ ordersTable = SeedOrders
    /\ orderItemsTable = SeedOrderItems
    /\ paymentsTable = << >>
    /\ serial = [users |-> 4, restaurants |-> 3, menu_items |-> 3, reservations |-> 2,
                 orders |-> 2, order_items |-> 2, payments |-> 1]
    /\ last = NoCall
    /\ calls = << >>
    /\ orders = << >>
    /\ cart = << >>

CreateMenuItemInputs ==
    [restaurant_id : {1, 2, MissingId}, name : {"Test Pizza"},
     description : {"Delicious test pizza"}, price : {Money(15, 990)},
     category : {"Main Course"}, is_available : {TRUE},
     image_url : {"http://example.com/pizza.jpg"}]

CreateMenuItem(input) ==
    LET id == serial.menu_items
        menuItem == [id |-> id, restaurant_id |-> input.restaurant_id, name |-> input.name,
                     description |-> input.description, price |-> toNumeric(input.price),
                     category |-> input.category, is_available |-> input.is_available,
                     image_url |-> input.image_url]
    IN IF input.restaurant_id \notin DOMAIN restaurantsTable
       THEN /\ last' = Call("createMenuItem", input, "Restaurant not found", <<>>)
            /\ UNCHANGED <<session, usersTable, restaurantsTable, menuItemsTable, reservationsTable,
                           ordersTable, orderItemsTable, paymentsTable, serial>>
       ELSE IF ~numericFits(input.price)
       THEN /\ serial' = [serial EXCEPT !.menu_items = id + 1]
            /\ last' = Call("createMenuItem", input, "numeric field overflow", <<>>)
            /\ UNCHANGED <<session, usersTable, restaurantsTable, menuItemsTable, reservationsTable,
                           ordersTable, orderItemsTable, paymentsTable>>
       ELSE /\ menuItemsTable' = Put(menuItemsTable, id, menuItem)
            /\ serial' = [serial EXCEPT !.menu_items = id + 1]
            /\ last' = Call("createMenuItem", input, "", menuItem)
            /\ UNCHANGED <<session, usersTable, restaurantsTable, reservationsTable,
                           ordersTable, orderItemsTable, paymentsTable>>

DeleteMenuItemInputs ==
    [id : 1..MaxMenuItems \cup {MissingId}, restaurantId : {1, 2, MissingId}]

\* deleteMenuItem selecting the item by its id alone
DeleteMenuItem_AnyRestaurant(input) ==
    LET matching == {i \in DOMAIN menuItemsTable : i = input.id}
        referenced == \E oi \in DOMAIN orderItemsTable :
                         orderItemsTable[oi].menu_item_id \in matching
    IN IF matching = {}
       THEN /\ last' = Call("deleteMenuItem", input, "", FALSE)
            /\ UNCHANGED <<session, usersTable, restaurantsTable, menuItemsTable, reservationsTable,
                           ordersTable, orderItemsTable, paymentsTable, serial>>
       ELSE IF referenced
       THEN /\ last' = Call("deleteMenuItem", input, "violates foreign key constraint", <<>>)
            /\ UNCHANGED <<session, usersTable, restaurantsTable, menuItemsTable, reservationsTable,
                           ordersTable, orderItemsTable, paymentsTable, serial>>
       ELSE /\ menuItemsTable' = Drop(menuItemsTable, input.id)
            /\ last' = Call("deleteMenuItem", input, "", TRUE)
            /\ UNCHANGED <<session, usersTable, restaurantsTable, reservationsTable,
                           ordersTable, orderItemsTable, paymentsTable, serial>>

DeleteMenuItem(input) ==
    LET \* the rows the WHERE clause selects
        matching == {i \in DOMAIN menuItemsTable :
                        i = input.id /\ menuItemsTable[i].restaurant_id = input.restaurantId}
        \* the references(...) constraint of order_items.menu_item_id
        referenced == \E oi \in DOMAIN orderItemsTable :
                         orderItemsTable[oi].menu_item_id \in matching
    IN IF matching = {}
       THEN /\ last' = Call("deleteMenuItem", input, "", FALSE)
            /\ UNCHANGED <<session, usersTable, restaurantsTable, menuItemsTable, reservationsTable,
                           ordersTable, orderItemsTable, paymentsTable, serial>>
       ELSE IF referenced
       THEN /\ last' = Call("deleteMenuItem", input, "violates foreign key constraint", <<>>)
            /\ UNCHANGED <<session, usersTable, restaurantsTable, menuItemsTable, reservationsTable,
                           ordersTable, orderItemsTable, paymentsTable, serial>>
       ELSE /\ menuItemsTable' = Drop(menuItemsTable, input.id)
            /\ last' = Call("deleteMenuItem", input, "", TRUE)
            /\ UNCHANGED <<session, usersTable, restaurantsTable, reservationsTable,
                           ordersTable, orderItemsTable, paymentsTable, serial>>

NextMenuItems ==
    \/ /\ serial.menu_items <= MaxMenuItems
       /\ \E input \in CreateMenuItemInputs : CreateMenuItem(input)
    \/ \E input \in DeleteMenuItemInputs : DeleteMenuItem(input)

SpecMenuItems == InitMenuItems /\ [][NextMenuItems]_vars

\* C18: deleteMenuItem(id, restaurantId) returns true only when a menu item with that
\* id existed in that restaurant, and then exactly that item is gone; for an unknown
\* id and for an item of another restaurant it returns false; whenever it does not
\* return true every menu item is still present
C18_DeleteOnlyInOwnRestaurant ==
    [][last'.op = "deleteMenuItem" =>
         LET id == last'.args.id
             owned == /\ id \in DOMAIN menuItemsTable
                      /\ menuItemsTable[id].restaurant_id = last'.args.restaurantId
         IN /\ ~owned => /\ last'.error = ""
                          /\ last'.ret = FALSE
            /\ (last'.error = "" /\ last'.ret = TRUE)
                  => /\ owned
                     /\ menuItemsTable' = Drop(menuItemsTable, id)
            /\ ~(last'.error = "" /\ last'.ret = TRUE)
                  => menuItemsTable' = menuItemsTable]_vars

\* a deleteMenuItem naming an existing item and another existing restaurant has
\* returned false, after another menu item was deleted
C18_Witness ==
    /\ last.op = "deleteMenuItem"
    /\ last.error = ""
    /\ last.ret = FALSE
    /\ last.args.id \in DOMAIN menuItemsTable
    /\ last.args.restaurantId \in DOMAIN restaurantsTable
    /\ menuItemsTable[last.args.id].restaurant_id # last.args.restaurantId
    /\ \E i \in 1..MaxMenuItems : i \notin DOMAIN menuItemsTable /\ i < serial.menu_items


\* the prices fit the numeric(10,2) column
UpdateMenuItemInputs ==
    [id : {1, MissingId}, name : {Undefined, "Updated Pizza"},
     description : {Undefined, NullText}, price : {Absent, Given(Money(18, 990))},
     category : {Undefined, NullText}, is_available : {Absent, Given(FALSE)},
     image_url : {Undefined}]

\* updateMenuItem skipping a description that is null
UpdateMenuItem_NullAsAbsent(input) ==
    LET existing == menuItemsTable[input.id]
        \* updated_at is always set, so the update is never empty
        updated == [existing EXCEPT
                      !.name = IF input.name # Undefined THEN input.name ELSE @,
                      !.description =
                          IF input.description \notin {Undefined, NullText}
                          THEN input.description ELSE @,
                      !.price = IF input.price # Absent THEN toNumeric(input.price[1]) ELSE @,
                      !.category = IF input.category # Undefined THEN input.category ELSE @,
                      !.is_available =
                          IF input.is_available # Absent THEN input.is_available[1] ELSE @,
                      !.image_url = IF input.image_url # Undefined THEN input.image_url ELSE @]
    IN IF input.id \notin DOMAIN menuItemsTable
       THEN \* the update returns no row
            /\ last' = Call("updateMenuItem", input, "Menu item not found", <<>>)
            /\ UNCHANGED <<session, usersTable, restaurantsTable, menuItemsTable, reservationsTable,
                           ordersTable, orderItemsTable, paymentsTable, serial>>
       ELSE /\ menuItemsTable' = [menuItemsTable EXCEPT ![input.id] = updated]
            /\ last' = Call("updateMenuItem", input, "", updated)
            /\ UNCHANGED <<session, usersTable, restaurantsTable, reservationsTable, ordersTable,
                           orderItemsTable, paymentsTable, serial>>

UpdateMenuItem(input) ==
    LET existing == menuItemsTable[input.id]
        \* updated_at is always set, so the update is never empty
        updated == [existing EXCEPT
                      !.name = IF input.name # Undefined THEN input.name ELSE @,
                      !.description =
                          IF input.description # Undefined THEN input.description ELSE @,
                      !.price = IF input.price # Absent THEN toNumeric(input.price[1]) ELSE @,
                      !.category = IF input.category # Undefined THEN input.category ELSE @,
                      !.is_available =
                          IF input.is_available # Absent THEN input.is_available[1] ELSE @,
                      !.image_url = IF input.image_url # Undefined THEN input.image_url ELSE @]
    IN IF input.id \notin DOMAIN menuItemsTable
       THEN \* the update returns no row
            /\ last' = Call("updateMenuItem", input, "Menu item not found", <<>>)
            /\ UNCHANGED <<session, usersTable, restaurantsTable, menuItemsTable, reservationsTable,
                           ordersTable, orderItemsTable, paymentsTable, serial>>
       ELSE /\ menuItemsTable' = [menuItemsTable EXCEPT ![input.id] = updated]
            /\ last' = Call("updateMenuItem", input, "", updated)
            /\ UNCHANGED <<session, usersTable, restaurantsTable, reservationsTable, ordersTable,
                           orderItemsTable, paymentsTable, serial>>

NextPartialUpdates ==
    \/ \E input \in UpdateReservationInputs : UpdateReservation(input)
    \/ \E input \in UpdateMenuItemInputs : UpdateMenuItem(input)

SpecPartialUpdates == InitMenuItems /\ [][NextPartialUpdates]_vars

\* the value a text field has after an update whose input gives it or leaves it out
AfterUpdate(given, stored) == IF given # Undefined THEN given ELSE stored

\* C19: updateReservation sets status and special_requests when its input gives them
\* and leaves them as stored when it does not; updateMenuItem does the same for name,
\* description, price, category, is_available and image_url, a field given as null
\* becoming null; no other row and no other field changes, and for an unknown id the
\* handlers throw 'Reservation not found' / 'Menu item not found' and change no row
C19_PartialUpdateFrame ==
    /\ [][last'.op = "updateReservation" =>
            LET input == last'.args
            IN IF input.id \notin DOMAIN reservationsTable
               THEN /\ last'.error = "Reservation not found"
                    /\ reservationsTable' = reservationsTable
               ELSE /\ last'.error = ""
                    /\ reservationsTable' =
                          [reservationsTable EXCEPT
                             ![input.id].status = AfterUpdate(input.status, @),
                             ![input.id].special_requests =
                                 AfterUpdate(input.special_requests, @)]]_vars
    /\ [][last'.op = "updateMenuItem" =>
            LET input == last'.args
            IN IF input.id \notin DOMAIN menuItemsTable
               THEN /\ last'.error = "Menu item not found"
                    /\ menuItemsTable' = menuItemsTable
               ELSE /\ last'.error = ""
                    /\ menuItemsTable' =
                          [menuItemsTable EXCEPT
                             ![input.id].name = AfterUpdate(input.name, @),
                             ![input.id].description = AfterUpdate(input.description, @),
                             ![input.id].price =
                                 IF input.price = Absent THEN @ ELSE input.price[1],
                             ![input.id].category = AfterUpdate(input.category, @),
                             ![input.id].is_available =
                                 IF input.is_available = Absent THEN @
                                 ELSE input.is_available[1],
                             ![input.id].image_url = AfterUpdate(input.image_url, @)]]_vars

\* an updateMenuItem giving only a null description has set it to null and kept the
\* name and the price, and the reservation has a new status and its first
\* special_requests
C19_Witness ==
    /\ last.op = "updateMenuItem"
    /\ last.error = ""
    /\ last.args.description = NullText
    /\ last.args.name = Undefined
    /\ last.args.price = Absent
    /\ menuItemsTable[last.args.id].description = NullText
    /\ menuItemsTable[last.args.id].name = SeedMenuItems[last.args.id].name
    /\ menuItemsTable[last.args.id].price = SeedMenuItems[last.args.id].price
    /\ reservationsTable[1].status # SeedReservations[1].status
    /\ reservationsTable[1].special_requests = SeedReservations[1].special_requests


-----------------------------------------------------------------------------
(* payments.ts: queries *)

OrderIdInputs == [orderId : {1, MissingId}]
ReservationIdInputs == [reservationId : {1, MissingId}]

\* getOrderPayments selecting by order_id alone
GetOrderPayments_AnyType(input) ==
    LET result == {paymentsTable[p] : p \in {q \in DOMAIN paymentsTable :
                       paymentsTable[q].order_id = input.orderId}}
    IN /\ last' = IF input.orderId \notin DOMAIN ordersTable
                  THEN Call("getOrderPayments", input, "Order not found", <<>>)
                  ELSE Call("getOrderPayments", input, "", result)
       /\ UNCHANGED <<session, usersTable, restaurantsTable, menuItemsTable, reservationsTable,
                      ordersTable, orderItemsTable, paymentsTable, serial>>

\* the rows are returned in no stated order: the result is the set of the rows
GetOrderPayments(input) ==
    LET result == {paymentsTable[p] : p \in {q \in DOMAIN paymentsTable :
                       /\ paymentsTable[q].order_id = input.orderId
                       /\ paymentsTable[q].type = "order"}}
    IN /\ last' = IF input.orderId \notin DOMAIN ordersTable
                  THEN Call("getOrderPayments", input, "Order not found", <<>>)
                  ELSE Call("getOrderPayments", input, "", result)
       /\ UNCHANGED <<session, usersTable, restaurantsTable, menuItemsTable, reservationsTable,
                      ordersTable, orderItemsTable, paymentsTable, serial>>

GetReservationPayments(input) ==
    LET result == {paymentsTable[p] : p \in {q \in DOMAIN paymentsTable :
                       /\ paymentsTable[q].reservation_id = input.reservationId
                       /\ paymentsTable[q].type = "reservation"}}
    IN /\ last' = IF input.reservationId \notin DOMAIN reservationsTable
                  THEN Call("getReservationPayments", input, "Reservation not found", <<>>)
                  ELSE Call("getReservationPayments", input, "", result)
       /\ UNCHANGED <<session, usersTable, restaurantsTable, menuItemsTable, reservationsTable,
                      ordersTable, orderItemsTable, paymentsTable, serial>>

NextPaymentQueries ==
    \/ /\ serial.payments <= MaxPayments
       /\ \E input \in CreatePaymentInputs : CreatePayment(input)
    \/ \E input \in OrderIdInputs : GetOrderPayments(input)
    \/ \E input \in ReservationIdInputs : GetReservationPayments(input)

SpecPaymentQueries == InitPayments /\ [][NextPaymentQueries]_vars

\* C20: getOrderPayments(orderId) throws 'Order not found' for an unknown order and
\* otherwise returns exactly the stored payments with that order_id and type 'order';
\* getReservationPayments(reservationId) throws 'Reservation not found' for an unknown
\* reservation and otherwise returns exactly the stored payments with that
\* reservation_id and type 'reservation'; neither changes a payment
C20_PaymentsOfOrderOrReservation ==
    /\ [][last'.op = "getOrderPayments" =>
            /\ paymentsTable' = paymentsTable
            /\ IF last'.args.orderId \notin DOMAIN ordersTable
               THEN last'.error = "Order not found"
               ELSE /\ last'.error = ""
                    /\ \A p \in DOMAIN paymentsTable :
                          paymentsTable[p] \in last'.ret
                              <=> /\ paymentsTable[p].order_id = last'.args.orderId
                                  /\ paymentsTable[p].type = "order"
                    /\ \A row \in last'.ret :
                          \E p \in DOMAIN paymentsTable : paymentsTable[p] = row]_vars
    /\ [][last'.op = "getReservationPayments" =>
            /\ paymentsTable' = paymentsTable
            /\ IF last'.args.reservationId \notin DOMAIN reservationsTable
               THEN last'.error = "Reservation not found"
               ELSE /\ last'.error = ""
                    /\ \A p \in DOMAIN paymentsTable :
                          paymentsTable[p] \in last'.ret
                              <=> /\ paymentsTable[p].reservation_id = last'.args.reservationId
                                  /\ paymentsTable[p].type = "reservation"
                    /\ \A row \in last'.ret :
                          \E p \in DOMAIN paymentsTable : paymentsTable[p] = row]_vars

\* getOrderPayments has returned the payment of type 'order' of the order and left
\* out a payment of type 'reservation' that names the same order
C20_Witness ==
    /\ last.op = "getOrderPayments"
    /\ last.error = ""
    /\ last.ret # {}
    /\ \E p \in DOMAIN paymentsTable :
          /\ paymentsTable[p].order_id = last.args.orderId
          /\ paymentsTable[p].type = "reservation"
          /\ paymentsTable[p] \notin last.ret

(***************************************************************************)
(* Handler calls in flight.  A handler runs its database statements one by *)
(* one, each statement on its own (no handler opens a transaction), so the *)
(* statements of two calls can interleave.  A call keeps what its          *)
(* statements returned: order, menuItem, orderItem, payment and existing   *)
(* are the arrays its selects gave, result the array of its insert.        *)
(***************************************************************************)
MaxCalls == 2

NewCall(op, input, pc) ==
    [op |-> op, args |-> input, pc |-> pc, order |-> << >>, menuItem |-> << >>,
     orderItem |-> << >>, payment |-> << >>, existing |-> << >>, result |-> << >>,
     error |-> "", ret |-> << >>]

\* the array a select by primary key returns
SelectById(table, id) == IF id \in DOMAIN table THEN <<table[id]>> ELSE << >>

\* the call throws or returns
Finish(c, error, ret) ==
    /\ calls' = [calls EXCEPT ![c].pc = "done", ![c].error = error, ![c].ret = ret]
    /\ last' = Call(calls[c].op, calls[c].args, error, ret)

InFlight(c, op, pc) == c \in DOMAIN calls /\ calls[c].op = op /\ calls[c].pc = pc

BeginCall(c, op, input, pc) ==
    /\ c \notin DOMAIN calls
    /\ calls' = Put(calls, c, NewCall(op, input, pc))
    /\ UNCHANGED <<usersTable, restaurantsTable, menuItemsTable, reservationsTable,
                   ordersTable, orderItemsTable, paymentsTable, serial, last, orders, cart>>

\* addOrderItem, statement by statement
AddOrderItem_SelectOrder(c) ==
    /\ InFlight(c, "addOrderItem", "selectOrder")
    /\ LET order == SelectById(ordersTable, calls[c].args.order_id)
       IN IF Len(order) = 0
          THEN Finish(c, "Order not found", << >>)
          ELSE /\ calls' = [calls EXCEPT ![c].order = order, ![c].pc = "selectMenuItem"]
               /\ UNCHANGED last
    /\ UNCHANGED <<usersTable, restaurantsTable, menuItemsTable, reservationsTable,
                   ordersTable, orderItemsTable, paymentsTable, serial, orders, cart>>

AddOrderItem_SelectMenuItem(c) ==
    /\ InFlight(c, "addOrderItem", "selectMenuItem")
    /\ LET menuItem == SelectById(menuItemsTable, calls[c].args.menu_item_id)
       IN IF Len(menuItem) = 0
          THEN Finish(c, "Menu item not found", << >>)
          ELSE /\ calls' = [calls EXCEPT ![c].menuItem = menuItem, ![c].pc = "insert"]
               /\ UNCHANGED last
    /\ UNCHANGED <<usersTable, restaurantsTable, menuItemsTable, reservationsTable,
                   ordersTable, orderItemsTable, paymentsTable, serial, orders, cart>>

AddOrderItem_Insert(c) ==
    /\ InFlight(c, "addOrderItem", "insert")
    /\ LET input == calls[c].args
           id == serial.order_items
           totalPrice == MMul(input.unit_price, input.quantity)
           orderItem == [id |-> id, order_id |-> input.order_id,
                         menu_item_id |-> input.menu_item_id, quantity |-> input.quantity,
                         unit_price |-> toNumeric(input.unit_price),
                         total_price |-> toNumeric(totalPrice)]
       IN /\ serial' = [serial EXCEPT !.order_items = id + 1]
          /\ IF ~(numericFits(input.unit_price) /\ numericFits(totalPrice))
             THEN /\ Finish(c, "numeric field overflow", << >>)
                  /\ UNCHANGED orderItemsTable
             ELSE /\ orderItemsTable' = Put(orderItemsTable, id, orderItem)
                  /\ calls' = [calls EXCEPT ![c].result = <<orderItem>>, ![c].pc = "update"]
                  /\ UNCHANGED last
    /\ UNCHANGED <<usersTable, restaurantsTable, menuItemsTable, reservationsTable,
                   ordersTable, paymentsTable, orders, cart>>

AddOrderItem_UpdateOrder(c) ==
    /\ InFlight(c, "addOrderItem", "update")
    /\ LET input == calls[c].args
           totalPrice == MMul(input.unit_price, input.quantity)
           \* the total the call read in its first statement
           currentTotal == calls[c].order[1].total_amount
           newTotal == MAdd(currentTotal, totalPrice)
       IN IF ~numericFits(newTotal)
          THEN /\ Finish(c, "numeric field overflow", << >>)
               /\ UNCHANGED ordersTable
          ELSE /\ ordersTable' =
                     [o \in DOMAIN ordersTable |->
                         IF o = input.order_id
                         THEN [ordersTable[o] EXCEPT !.total_amount = toNumeric(newTotal)]
                         ELSE ordersTable[o]]
               /\ Finish(c, "", calls[c].result[1])
    /\ UNCHANGED <<usersTable, restaurantsTable, menuItemsTable, reservationsTable,
                   orderItemsTable, paymentsTable, serial, orders, cart>>

\* removeOrderItem, statement by statement
RemoveOrderItem_SelectOrderItem(c) ==
    /\ InFlight(c, "removeOrderItem", "selectOrderItem")
    /\ LET input == calls[c].args
           orderItem == IF /\ input.orderItemId \in DOMAIN orderItemsTable
                           /\ orderItemsTable[input.orderItemId].order_id = input.orderId
                        THEN <<orderItemsTable[input.orderItemId]>>
                        ELSE << >>
       IN IF Len(orderItem) = 0
          THEN Finish(c, "", FALSE)
          ELSE /\ calls' = [calls EXCEPT ![c].orderItem = orderItem, ![c].pc = "selectOrder"]
               /\ UNCHANGED last
    /\ UNCHANGED <<usersTable, restaurantsTable, menuItemsTable, reservationsTable,
                   ordersTable, orderItemsTable, paymentsTable, serial, orders, cart>>

RemoveOrderItem_SelectOrder(c) ==
    /\ InFlight(c, "removeOrderItem", "selectOrder")
    /\ LET order == SelectById(ordersTable, calls[c].args.orderId)
       IN IF Len(order) = 0
          THEN Finish(c, "", FALSE)
          ELSE /\ calls' = [calls EXCEPT ![c].order = order, ![c].pc = "delete"]
               /\ UNCHANGED last
    /\ UNCHANGED <<usersTable, restaurantsTable, menuItemsTable, reservationsTable,
                   ordersTable, orderItemsTable, paymentsTable, serial, orders, cart>>

RemoveOrderItem_Delete(c) ==
    /\ InFlight(c, "removeOrderItem", "delete")
    /\ LET input == calls[c].args
       IN orderItemsTable' =
              IF /\ input.orderItemId \in DOMAIN orderItemsTable
                 /\ orderItemsTable[input.orderItemId].order_id = input.orderId
              THEN Drop(orderItemsTable, input.orderItemId)
              ELSE orderItemsTable
    /\ calls' = [calls EXCEPT ![c].pc = "update"]
    /\ UNCHANGED <<usersTable, restaurantsTable, menuItemsTable, reservationsTable,
                   ordersTable, paymentsTable, serial, last, orders, cart>>

RemoveOrderItem_UpdateOrder(c) ==
    /\ InFlight(c, "removeOrderItem", "update")
    /\ LET input == calls[c].args
           \* the total and the item the call read in its first two statements
           currentTotal == calls[c].order[1].total_amount
           itemTotal == calls[c].orderItem[1].total_price
           newTotal == MSub(currentTotal, itemTotal)
       IN ordersTable' =
              [o \in DOMAIN ordersTable |->
                  IF o = input.orderId
                  THEN [ordersTable[o] EXCEPT !.total_amount = toNumeric(MMax0(newTotal))]
                  ELSE ordersTable[o]]
    /\ Finish(c, "", TRUE)
    /\ UNCHANGED <<usersTable, restaurantsTable, menuItemsTable, reservationsTable,
                   orderItemsTable, paymentsTable, serial, orders, cart>>

\* calls on the seeded order: items at a price of whole cents whose totals fit the
\* column, so that each call run on its own keeps the total equal to the sum
InterleavedAddInputs ==
    {input \in CreateOrderItemInputs :
        /\ input.order_id # 2
        /\ input.menu_item_id # 2
        /\ input.quantity = 1
        /\ input.unit_price = Money(12, 990)}

InterleavedRemoveInputs == {input \in RemoveOrderItemInputs : input.orderId = 1}

BeginAddOrderItem(c, input) == BeginCall(c, "addOrderItem", input, "selectOrder")

BeginRemoveOrderItem(c, input) == BeginCall(c, "removeOrderItem", input, "selectOrderItem")

NextInterleavedOrderItems ==
    \/ \E c \in 1..MaxCalls, input \in InterleavedAddInputs : BeginAddOrderItem(c, input)
    \/ \E c \in 1..MaxCalls, input \in InterleavedRemoveInputs : BeginRemoveOrderItem(c, input)
    \/ \E c \in DOMAIN calls : AddOrderItem_SelectOrder(c)
    \/ \E c \in DOMAIN calls : AddOrderItem_SelectMenuItem(c)
    \/ \E c \in DOMAIN calls : AddOrderItem_Insert(c)
    \/ \E c \in DOMAIN calls : AddOrderItem_UpdateOrder(c)
    \/ \E c \in DOMAIN calls : RemoveOrderItem_SelectOrderItem(c)
    \/ \E c \in DOMAIN calls : RemoveOrderItem_SelectOrder(c)
    \/ \E c \in DOMAIN calls : RemoveOrderItem_Delete(c)
    \/ \E c \in DOMAIN calls : RemoveOrderItem_UpdateOrder(c)

SpecInterleavedOrderItems == InitMenuItems /\ [][NextInterleavedOrderItems]_vars

\* C21: once the interleaved addOrderItem and removeOrderItem calls on an order have
\* all finished, the order's total_amount is the sum of total_price over its items
C21_TotalIsSumAfterInterleaving ==
    (DOMAIN calls # {} /\ \A c \in DOMAIN calls : calls[c].pc = "done")
        => \A o \in DOMAIN ordersTable :
              ordersTable[o].total_amount = SumTotalPrice(DOMAIN orderItemsTable, o)

\* processPayment, statement by statement
BeginProcessPayment(c, input) == BeginCall(c, "processPayment", input, "select")

ProcessPayment_Select(c) ==
    /\ InFlight(c, "processPayment", "select")
    /\ LET existingPayments == SelectById(paymentsTable, calls[c].args.paymentId)
       IN IF Len(existingPayments) = 0
          THEN Finish(c, "Payment not found", << >>)
          ELSE IF existingPayments[1].status # "pending"
          THEN Finish(c, "Cannot process payment with status: " \o existingPayments[1].status,
                      << >>)
          ELSE /\ calls' = [calls EXCEPT ![c].payment = existingPayments, ![c].pc = "update"]
               /\ UNCHANGED last
    /\ UNCHANGED <<usersTable, restaurantsTable, menuItemsTable, reservationsTable,
                   ordersTable, orderItemsTable, paymentsTable, serial, orders, cart>>

ProcessPayment_Update(c, nonce) ==
    /\ InFlight(c, "processPayment", "update")
    /\ LET paymentId == calls[c].args.paymentId
           transactionId == "txn_" \o nonce
           \* update ... where id = paymentId returning: the row as it is now, with the
           \* two columns set
           updated == [paymentsTable[paymentId] EXCEPT !.status = "processing",
                                                       !.transaction_id = transactionId]
       IN /\ paymentsTable' = [paymentsTable EXCEPT ![paymentId] = updated]
          /\ Finish(c, "", updated)
    /\ UNCHANGED <<usersTable, restaurantsTable, menuItemsTable, reservationsTable,
                   ordersTable, orderItemsTable, serial, orders, cart>>

NextInterleavedPayments ==
    \/ /\ serial.payments <= MaxStatusPayments
       /\ \E input \in OrderPaymentInputs : CreatePayment(input)
    \/ \E c \in 1..MaxCalls, input \in PaymentIdInputs : BeginProcessPayment(c, input)
    \/ \E c \in DOMAIN calls : ProcessPayment_Select(c)
    \/ \E c \in DOMAIN calls, nonce \in Nonces : ProcessPayment_Update(c, nonce)

SpecInterleavedPayments == InitPayments /\ [][NextInterleavedPayments]_vars

\* the processPayment calls for the payment that returned a payment
Processed(paymentId) ==
    {c \in DOMAIN calls : /\ calls[c].op = "processPayment"
                          /\ calls[c].args.paymentId = paymentId
                          /\ calls[c].pc = "done"
                          /\ calls[c].error = ""}

\* C22: of the interleaved processPayment calls for one pending payment at most one
\* succeeds: the payment keeps the transaction_id of the call that moved it to
\* 'processing', and every other call fails with 'Cannot process payment with status'
C22_ProcessedOnce ==
    \A p \in DOMAIN paymentsTable :
        /\ Cardinality(Processed(p)) <= 1
        /\ \A c \in Processed(p) : paymentsTable[p].transaction_id = calls[c].ret.transaction_id
        /\ \A c \in DOMAIN calls :
              (calls[c].op = "processPayment" /\ calls[c].args.paymentId = p
               /\ calls[c].pc = "done" /\ c \notin Processed(p) /\ Processed(p) # {})
                  => StartsWith(calls[c].error, "Cannot process payment with status")

\* registerUser, statement by statement
BeginRegisterUser(c, input) == BeginCall(c, "registerUser", input, "select")

RegisterUser_Select(c) ==
    /\ InFlight(c, "registerUser", "select")
    /\ LET existingUsers ==
               {i \in DOMAIN usersTable : usersTable[i].email = calls[c].args.email}
       IN IF existingUsers # {}
          THEN Finish(c, "User with this email already exists", << >>)
          ELSE /\ calls' = [calls EXCEPT ![c].pc = "insert"]
               /\ UNCHANGED last
    /\ UNCHANGED <<usersTable, restaurantsTable, menuItemsTable, reservationsTable,
                   ordersTable, orderItemsTable, paymentsTable, serial, orders, cart>>

\* the insert into a users table whose email column is not unique
RegisterUser_Insert_NoUniqueConstraint(c) ==
    /\ InFlight(c, "registerUser", "insert")
    /\ LET input == calls[c].args
           id == serial.users
           newUser == [id |-> id, email |-> input.email,
                       password_hash |-> hashPassword(input.password), role |-> input.role]
       IN /\ serial' = [serial EXCEPT !.users = id + 1]
          /\ usersTable' = Put(usersTable, id, newUser)
          /\ Finish(c, "", [user |-> newUser, token |-> generateToken(id)])
    /\ UNCHANGED <<restaurantsTable, menuItemsTable, reservationsTable,
                   ordersTable, orderItemsTable, paymentsTable, orders, cart>>

RegisterUser_Insert(c) ==
    /\ InFlight(c, "registerUser", "insert")
    /\ LET input == calls[c].args
           id == serial.users
           newUser == [id |-> id, email |-> input.email,
                       password_hash |-> hashPassword(input.password), role |-> input.role]
           \* email: text('email').notNull().unique()
           duplicate == \E i \in DOMAIN usersTable : usersTable[i].email = input.email
       IN /\ serial' = [serial EXCEPT !.users = id + 1]
          /\ IF duplicate
             THEN /\ Finish(c, "duplicate key value violates unique constraint", << >>)
                  /\ UNCHANGED usersTable
             ELSE /\ usersTable' = Put(usersTable, id, newUser)
                  /\ Finish(c, "", [user |-> newUser, token |-> generateToken(id)])
    /\ UNCHANGED <<restaurantsTable, menuItemsTable, reservationsTable,
                   ordersTable, orderItemsTable, paymentsTable, orders, cart>>

NextInterleavedRegistrations ==
    \/ \E c \in 1..MaxCalls, input \in RegisterUserInputs : BeginRegisterUser(c, input)
    \/ \E c \in DOMAIN calls : RegisterUser_Select(c)
    \/ \E c \in DOMAIN calls : RegisterUser_Insert(c)

SpecInterleavedRegistrations == Init /\ [][NextInterleavedRegistrations]_vars

\* the registerUser calls with the email that returned a user and a token
Registered(email) ==
    {c \in DOMAIN calls : /\ calls[c].op = "registerUser"
                          /\ calls[c].args.email = email
                          /\ calls[c].pc = "done"
                          /\ calls[c].error = ""}

\* C23: however registerUser calls with the same email interleave, at most one user
\* row with that email is stored and at most one of the calls returns a user and token
C23_OneUserPerEmail ==
    \A email \in Emails :
        /\ Cardinality({i \in DOMAIN usersTable : usersTable[i].email = email}) <= 1
        /\ Cardinality(Registered(email)) <= 1

\* two calls with the same email both passed the existence check; one has stored the
\* user and the insert of the other has been rejected by the unique constraint
C23_Witness ==
    \E c1, c2 \in DOMAIN calls :
        /\ c1 # c2
        /\ calls[c1].args.email = calls[c2].args.email
        /\ c1 \in Registered(calls[c1].args.email)
        /\ calls[c2].pc = "done"
        /\ calls[c2].error = "duplicate key value violates unique constraint"
        /\ Cardinality(DOMAIN usersTable) = 1

\* single items of the first restaurant's menu item, at a price that fits the column
\* once and at one that does not fit it twice
LargeOrderItemInputs ==
    {input \in CreateOrderItemInputs :
        /\ input.menu_item_id = 1
        /\ input.quantity = 1
        /\ numericFits(input.unit_price)
        /\ input.unit_price = toNumeric(input.unit_price)}

NextOrderTotals ==
    \/ /\ serial.orders <= MaxOrders
       /\ \E input \in OrderOfCustomerInputs : CreateOrder(input)
    \/ /\ serial.order_items <= MaxOrderItems
       /\ \E input \in LargeOrderItemInputs : AddOrderItem(input)
    \/ \E input \in RemoveOrderItemInputs : RemoveOrderItem(input)

SpecOrderTotals == InitSeeded /\ [][NextOrderTotals]_vars

\* C24: every order's total_amount is greater than or equal to 0 in every state: it is
\* 0 in the order createOrder stores, addOrderItem lowers no total, and removeOrderItem
\* writes 0 when the subtraction gives less
C24_TotalNeverNegative ==
    /\ [](\A o \in DOMAIN ordersTable : ~MIsNegative(ordersTable[o].total_amount))
    /\ [][/\ (last'.op = "createOrder" /\ last'.error = "")
                => ordersTable'[last'.ret.id].total_amount = Zero
          /\ last'.op = "addOrderItem"
                => \A o \in DOMAIN ordersTable :
                      ~MIsNegative(MSub(ordersTable'[o].total_amount,
                                        ordersTable[o].total_amount))
          /\ (last'.op = "removeOrderItem" /\ last'.ret)
                => ordersTable'[last'.args.orderId].total_amount =
                       MMax0(MSub(ordersTable[last'.args.orderId].total_amount,
                                  orderItemsTable[last'.args.orderItemId].total_price))]_vars

\* a removeOrderItem has removed an item whose total_price was more than the order's
\* total_amount, and the order's total is 0
C24_Witness ==
    /\ last.op = "removeOrderItem"
    /\ last.ret
    /\ MIsNegative(MSub(last.read.order.total_amount, last.read.orderItem.total_price))
    /\ ordersTable[last.args.orderId].total_amount = Zero

\* C25: for every stored order item, the menu item it references belongs to the
\* restaurant of the order it references
C25_MenuItemOfOrdersRestaurant ==
    \A i \in DOMAIN orderItemsTable :
        LET orderItem == orderItemsTable[i]
        IN (orderItem.order_id \in DOMAIN ordersTable
            /\ orderItem.menu_item_id \in DOMAIN menuItemsTable)
               => menuItemsTable[orderItem.menu_item_id].restaurant_id =
                      ordersTable[orderItem.order_id].restaurant_id

-----------------------------------------------------------------------------
(* The partner's OrderManagement screen.  `orders` holds the orders the     *)
(* screen has loaded, by id (the screen lists them by created_at).  A click *)
(* runs updateOrderStatus: the updateOrder call and the reload of the list. *)

\* the restaurant the screen is opened for
restaurant == SeedRestaurants[1]

getRestaurantOrders(table, restaurantId) ==
    [o \in {i \in DOMAIN table : table[i].restaurant_id = restaurantId} |-> table[o]]

getNextStatus(currentStatus) ==
    LET statusFlow == [pending |-> "confirmed", confirmed |-> "preparing",
                       preparing |-> "ready", ready |-> "delivered",
                       delivered |-> NullText, cancelled |-> NullText]
    IN statusFlow[currentStatus]

getNextStatusLabel(currentStatus) ==
    LET nextStatus == getNextStatus(currentStatus)
        labels == [pending |-> "Confirm", confirmed |-> "Start Preparing",
                   preparing |-> "Mark Ready", ready |-> "Mark Delivered",
                   delivered |-> "Delivered", cancelled |-> "Cancelled"]
    IN IF nextStatus = NullText THEN "" ELSE labels[nextStatus]

\* the buttons rendered for an order of the list
AdvanceOffered(order) == getNextStatus(order.status) # NullText

CancelOffered(order) == order.status \in {"pending", "confirmed"}

loadOrders ==
    /\ orders' = getRestaurantOrders(ordersTable, restaurant.id)
    /\ UNCHANGED <<usersTable, restaurantsTable, menuItemsTable, reservationsTable,
                   ordersTable, orderItemsTable, paymentsTable, serial, last, calls, cart>>

\* updateOrderStatus(orderId, status), called from the button with the label
updateOrderStatus(orderId, status, button) ==
    LET clicked == [order |-> orders[orderId], button |-> button]
        args == [orderId |-> orderId, status |-> status]
        updated == [ordersTable[orderId] EXCEPT !.status = status]
    IN IF orderId \notin DOMAIN ordersTable
       THEN \* updateOrder throws; the list is not reloaded
            /\ last' = CallRead("updateOrderStatus", args, clicked, "Order not found", << >>)
            /\ UNCHANGED <<session, usersTable, restaurantsTable, menuItemsTable,
                           reservationsTable, ordersTable, orderItemsTable, paymentsTable,
                           serial>>
       ELSE /\ ordersTable' = [ordersTable EXCEPT ![orderId] = updated]
            /\ orders' = getRestaurantOrders(ordersTable', restaurant.id)
            /\ last' = CallRead("updateOrderStatus", args, clicked, "", updated)
            /\ UNCHANGED <<usersTable, restaurantsTable, menuItemsTable, reservationsTable,
                           orderItemsTable, paymentsTable, serial, calls, cart>>

ClickAdvance(o) ==
    /\ o \in DOMAIN orders
    /\ AdvanceOffered(orders[o])
    /\ updateOrderStatus(o, getNextStatus(orders[o].status), getNextStatusLabel(orders[o].status))

\* the Cancel button rendered for every order
ClickCancel_AnyStatus(o) ==
    /\ o \in DOMAIN orders
    /\ updateOrderStatus(o, "cancelled", "Cancel")

ClickCancel(o) ==
    /\ o \in DOMAIN orders
    /\ CancelOffered(orders[o])
    /\ updateOrderStatus(o, "cancelled", "Cancel")

NextOrderManagement ==
    \/ /\ serial.orders <= MaxOrders
       /\ \E input \in CreateOrderInputs : CreateOrder(input)
    \/ loadOrders
    \/ \E o \in DOMAIN orders : ClickAdvance(o)
    \/ \E o \in DOMAIN orders : ClickCancel(o)

SpecOrderManagement == InitSeeded /\ [][NextOrderManagement]_vars

\* The runs of the screen that end only where it offers nothing more: the list is
\* loaded when it is out of date (useEffect), and the partner goes on pressing a
\* button of an order as long as the order has one.
SpecOrderManagementRuns ==
    /\ SpecOrderManagement
    /\ WF_vars(loadOrders)
    /\ \A o \in 1..MaxOrders : WF_vars(ClickAdvance(o) \/ ClickCancel(o))

ScreenFlow ==
    {<<s, getNextStatus(s)>> : s \in {"pending", "confirmed", "preparing", "ready"}}
    \cup {<<"pending", "cancelled">>, <<"confirmed", "cancelled">>}

\* the position of a status on the way to delivered or cancelled
StatusRank ==
    [pending |-> 0, confirmed |-> 1, preparing |-> 2, ready |-> 3, delivered |-> 4,
     cancelled |-> 5]

C27_LabelNamesAction ==
    LET action == [pending |-> "Confirm", confirmed |-> "Start Preparing",
                   preparing |-> "Mark Ready", ready |-> "Mark Delivered",
                   delivered |-> "", cancelled |-> ""]
    IN \A o \in DOMAIN orders :
          getNextStatusLabel(orders[o].status) = action[orders[o].status]

-----------------------------------------------------------------------------
(* The customer's RestaurantMenu screen.  `cart` is the array of cart      *)
(* entries: a menu item as the screen listed it, with a quantity.  The menu *)
(* list is taken from the table when an item is chosen; an entry keeps the  *)
(* copy of its item, whatever happens to the item in the table afterwards.  *)

\* the customer the screen is opened for
user == SeedUsers[1]

\* the menu of the getMenuItems tests in the first restaurant, and a banquet whose
\* price fits the price column once and not twice
SeedMenu ==
    SeedMenuItems @@
    (3 :> [id |-> 3, restaurant_id |-> 1, name |-> "Pasta",
           description |-> "Delicious test pizza", price |-> Money(12, 500),
           category |-> "Main", is_available |-> TRUE, image_url |-> NullText]) @@
    (4 :> [id |-> 4, restaurant_id |-> 1, name |-> "Banquet",
           description |-> "Delicious test pizza", price |-> Money(60000000, 0),
           category |-> "Main", is_available |-> TRUE, image_url |-> NullText])

InitRestaurantMenu ==
    /\ usersTable = SeedUsers
    /\ restaurantsTable = SeedRestaurants
    /\ menuItemsTable = SeedMenu
    /\ reservationsTable = << >>
    /\ ordersTable = << >>
    /\ orderItemsTable = << >>
    /\ paymentsTable = << >>
    /\ serial = [users |-> 4, restaurants |-> 3, menu_items |-> 5, reservations |-> 1,
                 orders |-> 1, order_items |-> 1, payments |-> 1]
    /\ last = NoCall
    /\ calls = << >>
    /\ orders = << >>
    /\ cart = << >>

\* loadMenuItems: the available items of the restaurant
menuItems ==
    {menuItemsTable[i] : i \in {j \in DOMAIN menuItemsTable :
                                   /\ menuItemsTable[j].restaurant_id = restaurant.id
                                   /\ menuItemsTable[j].is_available}}

\* { ...menuItem, quantity }
CartItem(menuItem, quantity) ==
    [f \in DOMAIN menuItem \cup {"quantity"} |->
        IF f = "quantity" THEN quantity ELSE menuItem[f]]

\* cart.reduce((sum, item) => sum + item.quantity, 0)
RECURSIVE totalItems(_)
totalItems(items) ==
    IF items = << >> THEN 0
    ELSE totalItems(SubSeq(items, 1, Len(items) - 1)) + items[Len(items)].quantity

\* addToCart appending an entry whatever the cart holds
addToCart_AlwaysAppend(prev, menuItem) == Append(prev, CartItem(menuItem, 1))

addToCart(prev, menuItem) ==
    LET existingItem == {i \in 1..Len(prev) : prev[i].id = menuItem.id}
    IN IF existingItem # {}
       THEN [i \in 1..Len(prev) |->
                IF prev[i].id = menuItem.id
                THEN [prev[i] EXCEPT !.quantity = prev[i].quantity + 1]
                ELSE prev[i]]
       ELSE Append(prev, CartItem(menuItem, 1))

removeFromCart(prev, menuItemId) ==
    LET existingItem == {i \in 1..Len(prev) : prev[i].id = menuItemId}
    IN IF existingItem # {} /\ \A i \in existingItem : prev[i].quantity > 1
       THEN [i \in 1..Len(prev) |->
                IF prev[i].id = menuItemId
                THEN [prev[i] EXCEPT !.quantity = prev[i].quantity - 1]
                ELSE prev[i]]
       ELSE SelectSeq(prev, LAMBDA item : item.id # menuItemId)

\* a change of the cart and the count the effect passes to onCartUpdate
setCart(op, menuItemId, next) ==
    /\ cart' = next
    /\ last' = Call(op, [menuItemId |-> menuItemId], "", totalItems(next))
    /\ UNCHANGED <<usersTable, restaurantsTable, menuItemsTable, reservationsTable,
                   ordersTable, orderItemsTable, paymentsTable, serial, calls, orders>>

AddToCart(menuItem) == setCart("addToCart", menuItem.id, addToCart(cart, menuItem))

RemoveFromCart(menuItemId) ==
    setCart("removeFromCart", menuItemId, removeFromCart(cart, menuItemId))

\* the quantity the screen shows for the item
getItemQuantity(menuItemId) ==
    LET cartItem == {i \in 1..Len(cart) : cart[i].id = menuItemId}
    IN IF cartItem = {} THEN 0 ELSE cart[CHOOSE i \in cartItem : TRUE].quantity

NextCart ==
    \/ \E menuItem \in menuItems :
          /\ getItemQuantity(menuItem.id) < MaxQuantity
          /\ AddToCart(menuItem)
    \/ \E menuItemId \in DOMAIN menuItemsTable \cup {MissingId} : RemoveFromCart(menuItemId)

SpecCart == InitRestaurantMenu /\ [][NextCart]_vars

\* C30: the cart holds at most one entry per menu item id and every quantity is at
\* least 1; addToCart of an item of the cart adds 1 to its quantity and adds no entry,
\* addToCart of another item appends an entry of quantity 1; removeFromCart takes 1
\* from a quantity above 1, removes the entry at quantity 1 and changes nothing for an
\* item that is not in the cart; the count passed to onCartUpdate is the sum of the
\* quantities
C30_CartEntries ==
    /\ [](/\ \A i, j \in 1..Len(cart) : cart[i].id = cart[j].id => i = j
          /\ \A i \in 1..Len(cart) : cart[i].quantity >= 1)
    /\ [][LET id == last'.args.menuItemId
              held == {i \in 1..Len(cart) : cart[i].id = id}
              rest == {i \in 1..Len(cart) : cart[i].id # id}
              Quantity(items, m) ==
                  LET at == {i \in 1..Len(items) : items[i].id = m}
                  IN IF at = {} THEN 0 ELSE items[CHOOSE i \in at : TRUE].quantity
              ids == {cart[i].id : i \in 1..Len(cart)} \cup {id}
              count == [m \in ids |-> Quantity(cart', m)]
              RECURSIVE Sum(_)
              Sum(s) == IF s = {} THEN 0
                        ELSE LET m == CHOOSE x \in s : TRUE IN count[m] + Sum(s \ {m})
          IN /\ last'.op = "addToCart"
                   => /\ Quantity(cart', id) = Quantity(cart, id) + 1
                      /\ Len(cart') = IF held = {} THEN Len(cart) + 1 ELSE Len(cart)
                      /\ \A i \in rest : cart'[i] = cart[i]
                      /\ last'.ret = Sum(ids)
             /\ last'.op = "removeFromCart"
                   => /\ Quantity(cart', id) =
                             IF Quantity(cart, id) = 0 THEN 0 ELSE Quantity(cart, id) - 1
                      /\ Len(cart') =
                             IF Quantity(cart, id) = 1 THEN Len(cart) - 1 ELSE Len(cart)
                      /\ \A m \in ids \ {id} : Quantity(cart', m) = Quantity(cart, m)
                      /\ held = {} => cart' = cart
                      /\ last'.ret = Sum(ids)]_vars

\* addToCart of an item already in a cart of two entries has raised its quantity to 2
\* and the count to 3
C30_Witness ==
    /\ last.op = "addToCart"
    /\ Len(cart) = 2
    /\ \E i \in 1..Len(cart) : cart[i].id = last.args.menuItemId /\ cart[i].quantity = 2
    /\ last.ret = 3

\* cart.reduce((total, item) => total + (item.price * item.quantity), 0)
RECURSIVE calculateTotal(_)
calculateTotal(items) ==
    IF items = << >> THEN Zero
    ELSE MAdd(calculateTotal(SubSeq(items, 1, Len(items) - 1)),
              MMul(items[Len(items)].price, items[Len(items)].quantity))

\* What placeOrder's calls do to the tables they write, db being
\* [ordersTable, orderItemsTable, serial]: the outcome of createOrder(input) ...
createOrderIn(db, input) ==
    LET id == db.serial.orders
        order == [id |-> id, customer_id |-> input.customer_id,
                  restaurant_id |-> input.restaurant_id, status |-> "pending",
                  total_amount |-> toNumeric(Zero),
                  delivery_address |-> input.delivery_address,
                  special_instructions |-> input.special_instructions]
    IN IF input.customer_id \notin DOMAIN usersTable
       THEN [db |-> db, error |-> "Customer not found", ret |-> << >>]
       ELSE IF input.restaurant_id \notin DOMAIN restaurantsTable
       THEN [db |-> db, error |-> "Restaurant not found", ret |-> << >>]
       ELSE [db |-> [db EXCEPT !.ordersTable = Put(db.ordersTable, id, order),
                               !.serial.orders = id + 1],
             error |-> "", ret |-> order]

\* ... and the outcome of addOrderItem(input)
addOrderItemIn(db, input) ==
    LET id == db.serial.order_items
        totalPrice == MMul(input.unit_price, input.quantity)
        orderItem == [id |-> id, order_id |-> input.order_id,
                      menu_item_id |-> input.menu_item_id, quantity |-> input.quantity,
                      unit_price |-> toNumeric(input.unit_price),
                      total_price |-> toNumeric(totalPrice)]
        currentTotal == db.ordersTable[input.order_id].total_amount
        newTotal == MAdd(currentTotal, totalPrice)
        inserted == [db EXCEPT !.orderItemsTable = Put(db.orderItemsTable, id, orderItem),
                               !.serial.order_items = id + 1]
    IN IF input.order_id \notin DOMAIN db.ordersTable
       THEN [db |-> db, error |-> "Order not found", ret |-> << >>]
       ELSE IF input.menu_item_id \notin DOMAIN menuItemsTable
       THEN [db |-> db, error |-> "Menu item not found", ret |-> << >>]
       ELSE IF ~(numericFits(input.unit_price) /\ numericFits(totalPrice))
       THEN [db |-> [db EXCEPT !.serial.order_items = id + 1],
             error |-> "numeric field overflow", ret |-> << >>]
       ELSE IF ~numericFits(newTotal)
       THEN [db |-> inserted, error |-> "numeric field overflow", ret |-> << >>]
       ELSE [db |-> [inserted EXCEPT
                        !.ordersTable[input.order_id].total_amount = toNumeric(newTotal)],
             error |-> "", ret |-> orderItem]

\* the loop of placeOrder giving up the cart entries after the first
RECURSIVE addCartItems_FirstOnly(_, _, _)
addCartItems_FirstOnly(run, order, k) ==
    IF k > Len(cart) \/ k > 1 \/ run.error # "" THEN run
    ELSE LET cartItem == cart[k]
             orderItemInput == [order_id |-> order.id, menu_item_id |-> cartItem.id,
                                quantity |-> cartItem.quantity,
                                unit_price |-> cartItem.price]
             added == addOrderItemIn(run.db, orderItemInput)
         IN addCartItems_FirstOnly(
                [db |-> added.db, error |-> added.error,
                 items |-> IF added.error = "" THEN Append(run.items, added.ret)
                           ELSE run.items],
                order, k + 1)

\* for (const cartItem of cart) await addOrderItem(...), from entry k on; the first
\* call that throws ends the loop
RECURSIVE addCartItems(_, _, _)
addCartItems(run, order, k) ==
    IF k > Len(cart) \/ run.error # "" THEN run
    ELSE LET cartItem == cart[k]
             orderItemInput == [order_id |-> order.id, menu_item_id |-> cartItem.id,
                                quantity |-> cartItem.quantity,
                                unit_price |-> cartItem.price]
             added == addOrderItemIn(run.db, orderItemInput)
         IN addCartItems(
                [db |-> added.db, error |-> added.error,
                 items |-> IF added.error = "" THEN Append(run.items, added.ret)
                           ELSE run.items],
                order, k + 1)

\* placeOrder: what it leaves in the tables, the error it shows and the order and
\* items its calls returned
placeOrderRun ==
    LET orderInput == [customer_id |-> user.id, restaurant_id |-> restaurant.id,
                       delivery_address |-> NullText, special_instructions |-> NullText]
        db == [ordersTable |-> ordersTable, orderItemsTable |-> orderItemsTable,
               serial |-> serial]
        created == createOrderIn(db, orderInput)
        run == IF created.error # ""
               THEN [db |-> created.db, error |-> created.error, items |-> << >>]
               ELSE addCartItems([db |-> created.db, error |-> "", items |-> << >>],
                                 created.ret, 1)
    IN [db |-> run.db, error |-> run.error, order |-> created.ret, items |-> run.items]

\* placeOrder emptying the cart whether its calls succeeded or not
PlaceOrder_ClearAlways ==
    /\ Len(cart) # 0
    /\ LET run == placeOrderRun
       IN /\ ordersTable' = run.db.ordersTable
          /\ orderItemsTable' = run.db.orderItemsTable
          /\ serial' = run.db.serial
          /\ cart' = << >>
          /\ last' = Call("placeOrder", [cart |-> cart], run.error,
                          [order |-> run.order, items |-> run.items])
    /\ UNCHANGED <<usersTable, restaurantsTable, menuItemsTable, reservationsTable,
                   paymentsTable, calls, orders>>

PlaceOrder ==
    /\ Len(cart) # 0
    /\ LET run == placeOrderRun
       IN /\ ordersTable' = run.db.ordersTable
          /\ orderItemsTable' = run.db.orderItemsTable
          /\ serial' = run.db.serial
          /\ cart' = IF run.error = "" THEN << >> ELSE cart
          /\ last' = Call("placeOrder", [cart |-> cart], run.error,
                          [order |-> run.order, items |-> run.items])
    /\ UNCHANGED <<usersTable, restaurantsTable, menuItemsTable, reservationsTable,
                   paymentsTable, calls, orders>>

\* the partner's deleteMenuItem calls for the restaurant of the screen
DeleteOwnMenuItemInputs ==
    {input \in DeleteMenuItemInputs : input.restaurantId = restaurant.id}

\* The customer fills the cart and places the order, again after a failure, while
\* the partner deletes menu items.
NextPlaceOrder ==
    \/ /\ ordersTable = << >>
       /\ \E menuItem \in menuItems :
             /\ getItemQuantity(menuItem.id) < MaxQuantity
             /\ AddToCart(menuItem)
    \/ /\ ordersTable = << >>
       /\ \E menuItemId \in DOMAIN menuItemsTable : RemoveFromCart(menuItemId)
    \/ \E input \in DeleteOwnMenuItemInputs : DeleteMenuItem(input)
    \/ /\ serial.orders <= MaxStatusOrders
       /\ PlaceOrder

SpecPlaceOrder == InitRestaurantMenu /\ [][NextPlaceOrder]_vars

\* the order items of the order
ItemsOf(table, orderId) == {i \in DOMAIN table : table[i].order_id = orderId}

\* C28: when placeOrder completes without error there is exactly one new order, of the
\* user at the restaurant; it has exactly one order item per cart entry, with the
\* entry's menu item id, quantity and price as unit_price; its total_amount is the cart
\* total of calculateTotal; and the cart is empty
C28_PlaceOrderStoresCart ==
    [][(last'.op = "placeOrder" /\ last'.error = "") =>
          LET id == last'.ret.order.id
              items == ItemsOf(orderItemsTable', id)
          IN /\ DOMAIN ordersTable' = DOMAIN ordersTable \cup {id}
             /\ id \notin DOMAIN ordersTable
             /\ ordersTable'[id].customer_id = user.id
             /\ ordersTable'[id].restaurant_id = restaurant.id
             /\ Cardinality(items) = Len(cart)
             /\ DOMAIN orderItemsTable' = DOMAIN orderItemsTable \cup items
             /\ \A k \in 1..Len(cart) :
                   \E i \in items :
                      /\ orderItemsTable'[i].menu_item_id = cart[k].id
                      /\ orderItemsTable'[i].quantity = cart[k].quantity
                      /\ orderItemsTable'[i].unit_price = cart[k].price
             /\ ordersTable'[id].total_amount = calculateTotal(cart)
             /\ cart' = << >>]_vars

\* an order has been placed from a cart of two entries, one of them of quantity 2
C28_Witness ==
    /\ last.op = "placeOrder"
    /\ last.error = ""
    /\ Len(last.args.cart) = 2
    /\ \E k \in 1..2 : last.args.cart[k].quantity = 2
    /\ Cardinality(ItemsOf(orderItemsTable, last.ret.order.id)) = 2
    /\ cart = << >>

\* the sum of total_price over the order items of a list
RECURSIVE SumOfItems(_)
SumOfItems(items) ==
    IF items = << >> THEN Zero
    ELSE MAdd(SumOfItems(SubSeq(items, 1, Len(items) - 1)), items[Len(items)].total_price)

====
